---- MODULE Spec2Model ----
(***************************************************************************)
(* Model of the Data Quality Intelligence (DQI) engine of Jeswinah/DQS:    *)
(* the CSV reader, the value typer, the schema extractor, the seven        *)
(* dimension scorers, the composite scorer, the recommendation, risk and   *)
(* compliance generators and analyzeDQI, the asynchronous entry point.     *)
(*                                                                         *)
(* Text is a sequence of one-character strings.  A number is the integer   *)
(* count of its hundredths (12.5 is 1250): the engine rounds every ratio   *)
(* and statistic to two decimals, and the model's inputs carry at most two *)
(* fractional digits.  Ratios and weights are kept in hundredths too.      *)
(***************************************************************************)
EXTENDS Integers, Sequences, FiniteSets, TLC

(***************************************************************************)
(* Characters and text                                                     *)
(***************************************************************************)
DigitSeq == <<"0", "1", "2", "3", "4", "5", "6", "7", "8", "9">>
LowerSeq == <<"a", "b", "c", "d", "e", "f", "g", "h", "i", "j", "k", "l", "m",
              "n", "o", "p", "q", "r", "s", "t", "u", "v", "w", "x", "y", "z">>
UpperSeq == <<"A", "B", "C", "D", "E", "F", "G", "H", "I", "J", "K", "L", "M",
              "N", "O", "P", "Q", "R", "S", "T", "U", "V", "W", "X", "Y", "Z">>

Range(f) == {f[i] : i \in DOMAIN f}

Digit == Range(DigitSeq)
Lower == Range(LowerSeq)
Upper == Range(UpperSeq)
\* \w of a JavaScript regular expression
WordChar == Digit \cup Lower \cup Upper \cup {"_"}
\* the white space String.prototype.trim and \s strip
Space == {" ", "\t", "\n", "\r"}

toLowerCaseChar(c) ==
    IF c \in Upper THEN LowerSeq[CHOOSE i \in 1..26 : UpperSeq[i] = c] ELSE c

toLowerCase(s) == [i \in 1..Len(s) |-> toLowerCaseChar(s[i])]

\* s.substring(a - 1, b) with 1-based inclusive bounds, empty when a > b
Sub(s, a, b) == IF a > b THEN <<>> ELSE SubSeq(s, a, b)

\* s.substring(0, n) and a.slice(0, n): the first n elements, or all of them
firstN(s, n) == Sub(s, 1, IF Len(s) < n THEN Len(s) ELSE n)

\* String.prototype.trim
trim(s) ==
    LET keep == {i \in 1..Len(s) : s[i] \notin Space}
    IN  IF keep = {} THEN <<>>
        ELSE Sub(s, CHOOSE i \in keep : \A j \in 1..(i - 1) : s[j] \in Space,
                    CHOOSE i \in keep :
                        \A j \in (i + 1)..Len(s) : s[j] \in Space)

\* String.prototype.includes
includes(s, sub) ==
    \E i \in 1..(Len(s) - Len(sub) + 1) : Sub(s, i, i + Len(sub) - 1) = sub

\* String.prototype.endsWith
endsWith(s, sub) ==
    Len(sub) <= Len(s) /\ Sub(s, Len(s) - Len(sub) + 1, Len(s)) = sub

\* s.replace(/[...]/g, ''): s without the characters of the class
removeChars(s, class) == SelectSeq(s, LAMBDA c : c \notin class)

\* s.replace(/^"|"$/g, ''): one leading and one trailing double quote removed
stripQuotes(s) ==
    LET a == IF s # <<>> /\ Head(s) = "\"" THEN Tail(s) ELSE s
    IN  IF a # <<>> /\ a[Len(a)] = "\"" THEN Sub(a, 1, Len(a) - 1) ELSE a

\* String.prototype.split on one separator character
RECURSIVE split(_, _)
split(s, sep) ==
    LET hits == {i \in 1..Len(s) : s[i] = sep}
    IN  IF hits = {} THEN <<s>>
        ELSE LET i == CHOOSE i \in hits : \A j \in hits : i <= j
             IN  <<Sub(s, 1, i - 1)>> \o split(Sub(s, i + 1, Len(s)), sep)

\* Array.prototype.join with a separator text
RECURSIVE join(_, _)
join(parts, sep) ==
    IF parts = <<>> THEN <<>>
    ELSE IF Len(parts) = 1 THEN parts[1]
    ELSE parts[1] \o sep \o join(Tail(parts), sep)

(***************************************************************************)
(* Regular expressions.  A pattern is a sequence of elements; run gives    *)
(* the positions a match can end at when it starts at one of P (position p *)
(* stands before the p-th character), so test is RegExp.prototype.test.    *)
(***************************************************************************)
\* between lo and hi characters of a class: \d{3,4}, x?, one literal
Cls(set, lo, hi) == [k |-> "cls", set |-> set, lo |-> lo, hi |-> hi]
\* lo or more characters of a class: [\d,]+, \d*, [a-z]{2,}
Many(set, lo) == [k |-> "many", set |-> set, lo |-> lo]
Lit(c) == Cls({c}, 1, 1)
Opt(set) == Cls(set, 0, 1)
\* \b, ^ and $
WB == [k |-> "wb"]
BOL == [k |-> "bol"]
EOL == [k |-> "eol"]
\* (USD|EUR|...) under the i flag: lits are lower-case texts
AltCI(lits) == [k |-> "alt", lits |-> lits]
\* (?: ... )?
OptGroup(sub) == [k |-> "opt", sub |-> sub]

isWordAt(s, i) == i \in 1..Len(s) /\ s[i] \in WordChar

RECURSIVE run(_, _, _)
step(e, s, P) ==
    CASE e.k = "cls" ->
           {p + n : <<p, n>> \in
              {<<p, n>> \in P \X (e.lo..e.hi) :
                  /\ p + n - 1 <= Len(s)
                  /\ \A j \in p..(p + n - 1) : s[j] \in e.set}}
      [] e.k = "many" ->
           {q \in 1..(Len(s) + 1) :
              \E p \in P : /\ p + e.lo <= q
                           /\ \A j \in p..(q - 1) : s[j] \in e.set}
      [] e.k = "wb" -> {p \in P : isWordAt(s, p - 1) # isWordAt(s, p)}
      [] e.k = "bol" -> {p \in P : p = 1}
      [] e.k = "eol" -> {p \in P : p = Len(s) + 1}
      [] e.k = "alt" ->
           {p + Len(l) : <<p, l>> \in
              {<<p, l>> \in P \X e.lits :
                  /\ p + Len(l) - 1 <= Len(s)
                  /\ toLowerCase(Sub(s, p, p + Len(l) - 1)) = l}}
      [] e.k = "opt" -> P \cup run(e.sub, s, P)

run(pat, s, P) ==
    IF pat = <<>> \/ P = {} THEN P
    ELSE run(Tail(pat), s, step(Head(pat), s, P))

test(pat, s) == run(pat, s, 1..(Len(s) + 1)) # {}

(***************************************************************************)
(* Cell values: null | number | boolean | string (ParsedRow)               *)
(***************************************************************************)
NullV == [t |-> "null"]
NumV(h) == [t |-> "number", n |-> h]
BoolV(b) == [t |-> "boolean", b |-> b]
StrV(s) == [t |-> "string", s |-> s]

DigitVal(c) == (CHOOSE i \in 1..10 : DigitSeq[i] = c) - 1

RECURSIVE NatOf(_)
NatOf(ds) ==
    IF ds = <<>> THEN 0
    ELSE 10 * NatOf(Sub(ds, 1, Len(ds) - 1)) + DigitVal(ds[Len(ds)])

RECURSIVE NatToStr(_)
NatToStr(n) ==
    IF n < 10 THEN <<DigitSeq[n + 1]>>
    ELSE NatToStr(n \div 10) \o <<DigitSeq[(n % 10) + 1]>>

\* String(v) of a number kept in hundredths: 1250 is "12.5", -5 is "-0.05"
NumToStr(h) ==
    LET a == IF h < 0 THEN 0 - h ELSE h
        f == a % 100
    IN  (IF h < 0 THEN <<"-">> ELSE <<>>) \o NatToStr(a \div 100)
        \o (IF f = 0 THEN <<>>
            ELSE IF f % 10 = 0 THEN <<".", DigitSeq[(f \div 10) + 1]>>
            ELSE <<".", DigitSeq[(f \div 10) + 1], DigitSeq[(f % 10) + 1]>>)

\* String(v) for a non-null cell value
String(v) ==
    CASE v.t = "number" -> NumToStr(v.n)
      [] v.t = "boolean" -> IF v.b THEN <<"t", "r", "u", "e">> ELSE <<"f", "a", "l", "s", "e">>
      [] v.t = "string" -> v.s

NaN == [nan |-> TRUE]

\* Number(s) for decimal literals: white space trimmed, "" is 0, an optional
\* sign, digits with an optional fraction.  The result is in hundredths; a
\* literal with a third fractional digit, an exponent, a radix prefix or
\* Infinity is outside the inputs of this model.
digitsValue(ip, fp) ==
    100 * NatOf(ip)
    + (CASE Len(fp) = 0 -> 0
         [] Len(fp) = 1 -> 10 * DigitVal(fp[1])
         [] Len(fp) = 2 -> NatOf(fp))

partsValue(body, parts) ==
    LET ip == parts[1]
        fp == IF Len(parts) = 2 THEN parts[2] ELSE <<>>
    IN  IF /\ Len(parts) <= 2
           /\ \A i \in 1..Len(body) : body[i] \in Digit \cup {"."}
           /\ Len(ip) + Len(fp) > 0
        THEN [nan |-> FALSE, n |-> digitsValue(ip, fp)]
        ELSE NaN

unsignedValue(body) == partsValue(body, split(body, "."))

signedValue(negative, r) ==
    IF negative /\ ~r.nan THEN [nan |-> FALSE, n |-> 0 - r.n] ELSE r

trimmedValue(u) ==
    IF u = <<>> THEN [nan |-> FALSE, n |-> 0]
    ELSE signedValue(u[1] = "-",
                     unsignedValue(IF u[1] \in {"+", "-"} THEN Tail(u) ELSE u))

Number(s) == trimmedValue(trim(s))

(***************************************************************************)
(* Sensitive data patterns and redaction                                   *)
(***************************************************************************)
DashOrSpace == {"-"} \cup Space
Sep == {"-", "."} \cup Space
D(n) == Cls(Digit, n, n)
EmailLocal == Digit \cup Lower \cup Upper \cup {".", "_", "%", "+", "-"}
EmailHost == Digit \cup Lower \cup Upper \cup {".", "-"}
EmailTld == Lower \cup Upper \cup {"|"}

SENSITIVE_PATTERNS ==
    << \* PAN
       <<WB, D(4), Opt(DashOrSpace), D(4), Opt(DashOrSpace), D(4),
         Opt(DashOrSpace), D(4), WB>>,
       \* CVV
       <<WB, Cls(Digit, 3, 4), WB>>,
       \* SSN
       <<WB, D(3), Lit("-"), D(2), Lit("-"), D(4), WB>>,
       \* EMAIL
       <<WB, Many(EmailLocal, 1), Lit("@"), Many(EmailHost, 1), Lit("."),
         Many(EmailTld, 2), WB>>,
       \* PHONE
       <<WB, OptGroup(<<Opt({"+"}), Lit("1"), Opt(Sep)>>), Opt({"("}), D(3),
         Opt({")"}), Opt(Sep), D(3), Opt(Sep), D(4), WB>> >>

SENSITIVE_COLUMN_NAMES ==
    << <<"p", "a", "n">>, <<"c", "a", "r", "d", "_", "n", "u", "m", "b", "e", "r">>, <<"c", "a", "r", "d", "n", "u", "m", "b", "e", "r">>, <<"c", "a", "r", "d", "_", "n", "o">>, <<"c", "c", "_", "n", "u", "m", "b", "e", "r">>,
       <<"c", "v", "v">>, <<"c", "v", "c">>, <<"s", "e", "c", "u", "r", "i", "t", "y", "_", "c", "o", "d", "e">>, <<"s", "s", "n">>, <<"s", "o", "c", "i", "a", "l", "_", "s", "e", "c", "u", "r", "i", "t", "y">>,
       <<"p", "a", "s", "s", "w", "o", "r", "d">>, <<"p", "i", "n">>, <<"s", "e", "c", "r", "e", "t">>, <<"t", "o", "k", "e", "n">>, <<"a", "u", "t", "h", "_", "c", "o", "d", "e">> >>

NameSeparators == {"_", "-"} \cup Space

isSensitiveColumn(name) ==
    LET normalized == removeChars(toLowerCase(name), NameSeparators)
    IN  \E i \in DOMAIN SENSITIVE_COLUMN_NAMES :
            includes(normalized,
                     removeChars(SENSITIVE_COLUMN_NAMES[i], NameSeparators))

REDACTED == <<"*", "*", "*", "R", "E", "D", "A", "C", "T", "E", "D", "*", "*", "*">>

MaxSampleLen == 50

\* variants of redactSensitiveValue: one that leaves out the test of the
\* column name, one that leaves out the truncation
redactByPatternOnly(value, columnName) ==
    IF \E i \in DOMAIN SENSITIVE_PATTERNS :
           test(SENSITIVE_PATTERNS[i], value) THEN REDACTED
    ELSE IF Len(value) > MaxSampleLen
         THEN Sub(value, 1, MaxSampleLen - 3) \o <<".", ".", ".">>
    ELSE value

redactWithoutTruncation(value, columnName) ==
    IF isSensitiveColumn(columnName) THEN REDACTED
    ELSE IF \E i \in DOMAIN SENSITIVE_PATTERNS :
                test(SENSITIVE_PATTERNS[i], value) THEN REDACTED
    ELSE value

redactSensitiveValue(value, columnName) ==
    IF isSensitiveColumn(columnName) THEN REDACTED
    ELSE IF \E i \in DOMAIN SENSITIVE_PATTERNS :
                test(SENSITIVE_PATTERNS[i], value) THEN REDACTED
    ELSE IF Len(value) > MaxSampleLen
         THEN Sub(value, 1, MaxSampleLen - 3) \o <<".", ".", ".">>
    ELSE value

\* a variant of calculateGrade with exclusive lower bounds
calculateGradeExclusive(score) ==
    IF score > 90 THEN "A"
    ELSE IF score > 80 THEN "B"
    ELSE IF score > 70 THEN "C"
    ELSE IF score > 60 THEN "D"
    ELSE "F"

calculateGrade(score) ==
    IF score >= 90 THEN "A"
    ELSE IF score >= 80 THEN "B"
    ELSE IF score >= 70 THEN "C"
    ELSE IF score >= 60 THEN "D"
    ELSE "F"

(***************************************************************************)
(* CSV parsing                                                             *)
(***************************************************************************)
\* the loop of parseCSVLine, a character at a time: a double quote flips
\* inQuotes and is dropped, a comma outside quotes ends the field, every
\* other character is appended to current
inQuotesAt(line, i) ==
    Cardinality({j \in 1..(i - 1) : line[j] = "\""}) % 2 = 1

fieldEnds(line) ==
    {i \in 1..Len(line) : line[i] = "," /\ ~inQuotesAt(line, i)}

\* the k-th position of a set of positions, in ascending order
nth(S, k) == CHOOSE i \in S : Cardinality({j \in S : j < i}) = k - 1

isNotQuote(c) == c # "\""

\* a variant that ends a field at every comma, quoted or not
parseCSVLineAtEveryComma(line) ==
    [k \in DOMAIN split(line, ",") |->
        stripQuotes(trim(SelectSeq(split(line, ",")[k], isNotQuote)))]

parseCSVLine(line) ==
    LET ends == fieldEnds(line)
        n == Cardinality(ends)
        from(k) == IF k = 1 THEN 1 ELSE nth(ends, k - 1) + 1
        to(k) == IF k = n + 1 THEN Len(line) ELSE nth(ends, k) - 1
    IN  [k \in 1..(n + 1) |->
            stripQuotes(trim(SelectSeq(Sub(line, from(k), to(k)),
                                       isNotQuote)))]

LeadingZero == <<BOL, Lit("0"), Many(Digit, 1)>>

\* parseValue from "Try number" on
numberOrText(trimmed, num) ==
    IF ~num.nan /\ trimmed # <<>> /\ ~test(LeadingZero, trimmed)
    THEN NumV(num.n)
    ELSE IF toLowerCase(trimmed) = <<"t", "r", "u", "e">> THEN BoolV(TRUE)
    ELSE IF toLowerCase(trimmed) = <<"f", "a", "l", "s", "e">> THEN BoolV(FALSE)
    ELSE StrV(trimmed)

\* parseValue after its first statement
parseTrimmed(trimmed) ==
    IF \/ trimmed = <<>>
       \/ toLowerCase(trimmed) = <<"n", "u", "l", "l">>
       \/ toLowerCase(trimmed) = <<"n", "a">>
       \/ trimmed = <<"-">>
    THEN NullV
    ELSE numberOrText(trimmed, Number(removeChars(trimmed, {"$", ","})))

parseValue(value) == parseTrimmed(stripQuotes(trim(value)))

\* the row object built by headers.forEach: a later column of the same name
\* overwrites an earlier one
rowOf(headers, values) ==
    [h \in Range(headers) |->
        parseValue(values[CHOOSE i \in DOMAIN headers :
                              /\ headers[i] = h
                              /\ \A j \in DOMAIN headers :
                                     headers[j] = h => j <= i])]

\* a variant of rowsOf that keeps the lines with more fields than the header
rowsOfAtLeast(headers, lines) ==
    LET kept == SelectSeq([i \in 1..(Len(lines) - 1) |->
                              parseCSVLine(lines[i + 1])],
                          LAMBDA values : Len(values) >= Len(headers))
    IN  [i \in DOMAIN kept |-> rowOf(headers, kept[i])]

\* the loop of parseCSVContent over the lines after the first
rowsOf(headers, lines) ==
    LET kept == SelectSeq([i \in 1..(Len(lines) - 1) |->
                              parseCSVLine(lines[i + 1])],
                          LAMBDA values : Len(values) = Len(headers))
    IN  [i \in DOMAIN kept |-> rowOf(headers, kept[i])]

linesOf(headers, lines) == [headers |-> headers, rows |-> rowsOf(headers, lines)]

parsedLines(lines) == linesOf(parseCSVLine(lines[1]), lines)

parseCSVContent(content) == parsedLines(split(trim(content), "\n"))

(***************************************************************************)
(* Metadata extraction                                                     *)
(***************************************************************************)
\* the distinct members of a sequence in order of first occurrence (the
\* iteration order of a Set or of the keys of a Map)
RECURSIVE distinctSeq(_)
distinctSeq(s) ==
    IF s = <<>> THEN <<>>
    ELSE LET front == distinctSeq(Sub(s, 1, Len(s) - 1))
         IN  IF s[Len(s)] \in Range(front) THEN front
             ELSE Append(front, s[Len(s)])

RECURSIVE sumSeq(_)
sumSeq(s) == IF s = <<>> THEN 0 ELSE Head(s) + sumSeq(Tail(s))

\* Math.round(a / b) for b > 0: halves go up
roundDiv(a, b) == (2 * a + b) \div (2 * b)

notNull(v) == v.t # "null"
nonNull(values) == SelectSeq(values, notNull)

CurrencyPlain == <<BOL, Opt({"$"}), Many(Digit \cup {","}, 1), Opt({"."}),
                   Many(Digit, 0), EOL>>
CurrencySuffixed == <<BOL, Many(Digit \cup {","}, 1), Opt({"."}),
                      Many(Digit, 0), Many(Space, 0),
                      AltCI({ <<"u", "s", "d">>, <<"e", "u", "r">>, <<"g", "b", "p">>, <<"i", "n", "r">> }), EOL>>
DateISO == <<BOL, D(4), Lit("-"), D(2), Lit("-"), D(2)>>
DateUS == <<BOL, D(2), Lit("/"), D(2), Lit("/"), D(4)>>
DateEU == <<BOL, D(2), Lit("-"), D(2), Lit("-"), D(4)>>
IdentifierText == <<BOL, Many(Upper \cup Lower \cup Digit \cup {"-", "_"}, 1),
                    EOL>>

identifierPatterns == << <<"i", "d">>, <<"k", "e", "y">>, <<"c", "o", "d", "e">>, <<"r", "e", "f">>, <<"n", "u", "m">>, <<"n", "o">> >>

\* the tally key inferColumnType gives one non-null value
valueKind(v, isLikelyIdentifier) ==
    CASE v.t = "number" -> "number"
      [] v.t = "boolean" -> "boolean"
      [] v.t = "string" ->
           IF test(CurrencyPlain, v.s) \/ test(CurrencySuffixed, v.s)
           THEN "currency"
           ELSE IF test(DateISO, v.s) \/ test(DateUS, v.s) \/ test(DateEU, v.s)
           THEN "date"
           ELSE IF isLikelyIdentifier /\ test(IdentifierText, v.s)
           THEN "identifier"
           ELSE "string"

\* the number of values counted under the key k of the Map
tally(kinds, k) == Cardinality({i \in DOMAIN kinds : kinds[i] = k})

\* the loop over the Map: the first key with the largest count
dominant(kinds, types) ==
    CHOOSE i \in DOMAIN types :
        /\ \A j \in DOMAIN types : tally(kinds, types[j]) <= tally(kinds, types[i])
        /\ \A j \in 1..(i - 1) : tally(kinds, types[j]) < tally(kinds, types[i])

\* a variant that takes a share of exactly 80% for mixed too
dominantTypeUpToEighty(kinds, types, maxType) ==
    IF 10 * tally(kinds, maxType) <= 8 * Len(kinds) /\ Len(types) > 1
    THEN "mixed"
    ELSE maxType

\* types holds the keys of the Map in insertion order
dominantType(kinds, types, maxType) ==
    IF 10 * tally(kinds, maxType) < 8 * Len(kinds) /\ Len(types) > 1
    THEN "mixed"
    ELSE maxType

typeOfKinds(kinds) ==
    IF kinds = <<>> THEN "string"
    ELSE dominantType(kinds, distinctSeq(kinds),
                      distinctSeq(kinds)[dominant(kinds, distinctSeq(kinds))])

isLikelyIdentifier(columnName) ==
    \E i \in DOMAIN identifierPatterns :
        includes(toLowerCase(columnName), identifierPatterns[i])

kindsOf(nonNullValues, likelyIdentifier) ==
    [i \in DOMAIN nonNullValues |-> valueKind(nonNullValues[i], likelyIdentifier)]

inferColumnType(values, columnName) ==
    typeOfKinds(kindsOf(nonNull(values), isLikelyIdentifier(columnName)))

PatternScanLimit == 100

CurrencyDollar == <<BOL, Lit("$"), Many(Digit \cup {","}, 1), Opt({"."}),
                    Many(Digit, 0), EOL>>
CountryCode == <<BOL, Cls(Upper, 2, 3), EOL>>
AlphanumericId == <<BOL, Cls(Upper, 3, 3), Many(Digit, 1), EOL>>

\* the tags one string value adds, in the order the checks run
patternsOf(val) ==
    (IF test(DateISO, val) THEN <<"YYYY-MM-DD">> ELSE <<>>)
    \o (IF test(DateUS, val) THEN <<"MM/DD/YYYY">> ELSE <<>>)
    \o (IF test(DateEU, val) THEN <<"DD-MM-YYYY">> ELSE <<>>)
    \o (IF test(CurrencyDollar, val) THEN <<"$XXX.XX">> ELSE <<>>)
    \o (IF test(CountryCode, val) THEN <<"COUNTRY/CURRENCY_CODE">> ELSE <<>>)
    \o (IF test(AlphanumericId, val) THEN <<"ALPHANUMERIC_ID">> ELSE <<>>)

RECURSIVE concatAll(_)
concatAll(ss) == IF ss = <<>> THEN <<>> ELSE Head(ss) \o concatAll(Tail(ss))

isString(v) == v.t = "string"
isNumber(v) == v.t = "number"

detectPatterns(values) ==
    LET stringValues == SelectSeq(values, isString)
        scanned == Sub(stringValues, 1,
                       IF Len(stringValues) < PatternScanLimit
                       THEN Len(stringValues) ELSE PatternScanLimit)
    IN  distinctSeq(concatAll([i \in DOMAIN scanned |->
                                  patternsOf(scanned[i].s)]))

\* floor of the square root, by bisection on lo..hi (46340 is the largest
\* root of a 32-bit integer)
RECURSIVE isqrt(_, _, _)
isqrt(x, lo, hi) ==
    IF lo >= hi THEN lo
    ELSE LET mid == (lo + hi + 1) \div 2
         IN  IF mid * mid <= x THEN isqrt(x, mid, hi) ELSE isqrt(x, lo, mid - 1)

\* the numbers of a column in ascending order
RECURSIVE sortNums(_)
sortNums(s) ==
    IF s = <<>> THEN <<>>
    ELSE LET i == CHOOSE i \in DOMAIN s : \A j \in DOMAIN s : s[i] <= s[j]
         IN  <<s[i]>> \o sortNums(Sub(s, 1, i - 1) \o Sub(s, i + 1, Len(s)))

\* values are in hundredths, and so is every statistic after its
\* Math.round(x * 100) / 100.  The variance is (n * sum(w^2) - sum(w)^2) / n^2
\* for w the values less the smallest of them, so the rounded deviation is
\* floor((sqrt(4 * d) + n) / (2 * n)) with d the numerator.
varianceNumerator(w) ==
    Len(w) * sumSeq([i \in DOMAIN w |-> w[i] * w[i]]) - sumSeq(w) * sumSeq(w)

sortedStatistics(values, sorted) ==
    LET n == Len(values)
        d == varianceNumerator([i \in DOMAIN values |-> values[i] - sorted[1]])
    IN  [defined |-> TRUE,
         min |-> sorted[1],
         max |-> sorted[n],
         mean |-> roundDiv(sumSeq(values), n),
         median |-> IF n % 2 = 0
                    THEN roundDiv(sorted[n \div 2] + sorted[(n \div 2) + 1], 2)
                    ELSE sorted[(n \div 2) + 1],
         stdDev |-> (isqrt(4 * d, 0, 46340) + n) \div (2 * n)]

calculateNumericStatistics(values) ==
    IF Len(values) = 0
    THEN [defined |-> TRUE, min |-> 0, max |-> 0, mean |-> 0,
          median |-> 0, stdDev |-> 0]
    ELSE sortedStatistics(values, sortNums(values))

SampleCount == 3

\* extractColumnSchema once the type is inferred
columnSchema(header, values, inferredType) ==
    LET nonNullValues == nonNull(values)
        uniqueValues == {String(nonNullValues[i]) : i \in DOMAIN nonNullValues}
        shown == firstN(nonNullValues, SampleCount)
        numericValues == SelectSeq(values, isNumber)
    IN  [name |-> header,
         inferredType |-> inferredType,
         nullRatio |-> roundDiv(100 * (Len(values) - Len(nonNullValues)),
                                Len(values)),
         uniqueRatio |-> roundDiv(100 * Cardinality(uniqueValues),
                                  IF Len(nonNullValues) > 1
                                  THEN Len(nonNullValues) ELSE 1),
         sampleValues |-> [i \in DOMAIN shown |->
                              redactSensitiveValue(String(shown[i]), header)],
         patterns |-> detectPatterns(values),
         statistics |->
             IF inferredType \in {"number", "currency"} /\ numericValues # <<>>
             THEN calculateNumericStatistics(
                      [i \in DOMAIN numericValues |-> numericValues[i].n])
             ELSE [defined |-> FALSE]]

extractColumnSchema(header, values) ==
    columnSchema(header, values, inferColumnType(values, header))

(***************************************************************************)
(* Dimension scoring.  A scorer gets the parsed rows, the metadata and the *)
(* current day and gives [score, findings, impactedColumns].  A finding is *)
(* kept as [kind, col, n] in place of its sentence.                        *)
(***************************************************************************)
Finding(kind, col, n) == [kind |-> kind, col |-> col, n |-> n]

nameHas(col, text) == includes(toLowerCase(col.name), text)

\* Array.prototype.push guarded by !impactedColumns.includes(name)
pushNew(cols, name) == IF name \in Range(cols) THEN cols ELSE Append(cols, name)

\* the values of one column, rows.map(r => r[col.name])
columnValues(rows, name) == [i \in DOMAIN rows |-> rows[i][name]]
\* Math.round(Math.max(0, 100 - num / den)) for den > 0
penaltyScore(num, den) ==
    IF 100 * den - num <= 0 THEN 0 ELSE roundDiv(100 * den - num, den)

Acc0 == [n |-> 0, findings |-> <<>>, impactedColumns |-> <<>>]

\* ---- completeness: the loop body over one column; acc.n sums the null
\* ratios (hundredths), so filledCells / totalCells is 1 - acc.n / (100 * cols)
completenessCol(col, acc) ==
    IF col.nullRatio > 5
    THEN [n |-> acc.n + col.nullRatio,
          findings |-> Append(acc.findings,
                              Finding("missing", col.name, col.nullRatio)),
          impactedColumns |-> Append(acc.impactedColumns, col.name)]
    ELSE [acc EXCEPT !.n = acc.n + col.nullRatio]

\* ---- consistency
caseInconsistencies(values) ==
    LET texts == {values[i].s : i \in {j \in DOMAIN values :
                                          /\ values[j].t = "string"
                                          /\ Len(values[j].s) > 0}}
        keys == {toLowerCase(v) : v \in texts}
    IN  Cardinality(texts) - Cardinality(keys)

mixedTypesCheck(rows, col, acc) ==
    IF col.inferredType = "mixed"
    THEN [n |-> acc.n + roundDiv(3 * Len(rows), 10),
          findings |-> Append(acc.findings, Finding("mixedTypes", col.name, 0)),
          impactedColumns |-> Append(acc.impactedColumns, col.name)]
    ELSE acc

formatsCheck(rows, col, acc) ==
    IF Len(col.patterns) > 1
    THEN [n |-> acc.n + roundDiv(Len(rows), 10),
          findings |-> Append(acc.findings,
                              Finding("multipleFormats", col.name,
                                      Len(col.patterns))),
          impactedColumns |-> pushNew(acc.impactedColumns, col.name)]
    ELSE acc

caseCheck(col, count, acc) ==
    IF col.inferredType = "string" /\ count > 0
    THEN [n |-> acc.n + 5 * count,
          findings |-> Append(acc.findings,
                              Finding("caseInconsistencies", col.name, count)),
          impactedColumns |-> pushNew(acc.impactedColumns, col.name)]
    ELSE acc

consistencyCol(rows, col, acc) ==
    caseCheck(col, caseInconsistencies(columnValues(rows, col.name)),
              formatsCheck(rows, col, mixedTypesCheck(rows, col, acc)))

\* ---- uniqueness: acc.n sums 1 - uniqueRatio (hundredths) over the
\* identifier columns
isIdColumn(col) == col.inferredType = "identifier" \/ nameHas(col, <<"i", "d">>)

uniquenessCol(col, acc) ==
    IF isIdColumn(col) /\ col.uniqueRatio < 100
    THEN [n |-> acc.n + (100 - col.uniqueRatio),
          findings |-> Append(acc.findings,
                              Finding("idNonUnique", col.name,
                                      100 - col.uniqueRatio)),
          impactedColumns |-> Append(acc.impactedColumns, col.name)]
    ELSE acc

\* a variant of duplicateCount that looks at the row before only
duplicateCountAdjacent(rows) ==
    Cardinality({i \in DOMAIN rows : i > 1 /\ rows[i - 1] = rows[i]})

\* a variant of duplicateCount that counts the pairs of equal rows
duplicateCountOfPairs(rows) ==
    Cardinality({p \in (DOMAIN rows) \X (DOMAIN rows) :
                    p[1] < p[2] /\ rows[p[1]] = rows[p[2]]})

\* rows whose JSON.stringify key was seen in an earlier row
duplicateCount(rows) ==
    Cardinality({i \in DOMAIN rows : \E j \in 1..(i - 1) : rows[j] = rows[i]})

\* ---- validity
positiveFields == << <<"a", "m", "o", "u", "n", "t">>, <<"p", "r", "i", "c", "e">>, <<"q", "u", "a", "n", "t", "i", "t", "y">>, <<"c", "o", "u", "n", "t">>, <<"t", "o", "t", "a", "l">>,
                     <<"b", "a", "l", "a", "n", "c", "e">>, <<"f", "e", "e">>, <<"c", "o", "s", "t">> >>
nullLikeStrings == { <<"n", "u", "l", "l">>, <<"n", "a">>, <<"n", "/", "a">>, <<"n", "o", "n", "e">>, <<"u", "n", "d", "e", "f", "i", "n", "e", "d">>, <<"-">>, <<>> }

isPositiveField(col) ==
    \E i \in DOMAIN positiveFields : nameHas(col, positiveFields[i])

\* the five checks of the loop body, each on the tally the one before left
negativeCheck(col, values, acc) ==
    LET negativeCount ==
            Cardinality({i \in DOMAIN values : /\ values[i].t = "number"
                                               /\ values[i].n < 0})
    IN  IF isPositiveField(col) /\ negativeCount > 0
        THEN [n |-> acc.n + negativeCount,
              findings |-> Append(acc.findings,
                                  Finding("negative", col.name, negativeCount)),
              impactedColumns |-> Append(acc.impactedColumns, col.name)]
        ELSE acc

zeroCheck(col, values, acc) ==
    LET zeroCount == Cardinality({i \in DOMAIN values : values[i] = NumV(0)})
    IN  IF isPositiveField(col) /\ zeroCount > 0 /\ nameHas(col, <<"a", "m", "o", "u", "n", "t">>)
        THEN [acc EXCEPT !.n = acc.n + zeroCount,
                         !.findings = Append(acc.findings,
                                             Finding("zero", col.name,
                                                     zeroCount))]
        ELSE acc

outlierCount(st, values) ==
    IF st.defined /\ st.stdDev > 0
    THEN Cardinality({i \in DOMAIN values :
             /\ values[i].t = "number"
             /\ \/ values[i].n > st.mean + 3 * st.stdDev
                \/ values[i].n < st.mean - 3 * st.stdDev})
    ELSE 0

\* the tally after count more invalid records in a column that is pushed
\* to impactedColumns unless it is there
flagged(acc, count, kind, name) ==
    IF count > 0
    THEN [n |-> acc.n + count,
          findings |-> Append(acc.findings, Finding(kind, name, count)),
          impactedColumns |-> pushNew(acc.impactedColumns, name)]
    ELSE acc

outlierCheck(col, values, acc) ==
    flagged(acc, outlierCount(col.statistics, values), "outliers", col.name)

nullLikeCheck(col, values, acc) ==
    flagged(acc,
            Cardinality({i \in DOMAIN values :
                /\ values[i].t = "string"
                /\ trim(toLowerCase(values[i].s)) \in nullLikeStrings}),
            "nullLike", col.name)

nonNumericCount(values) ==
    Cardinality({i \in DOMAIN values : values[i].t \notin {"null", "number"}})

nonNumericCheck(col, values, acc) ==
    flagged(acc,
            IF nameHas(col, <<"a", "m", "o", "u", "n", "t">>) \/ nameHas(col, <<"p", "r", "i", "c", "e">>)
            THEN nonNumericCount(values) ELSE 0,
            "nonNumeric", col.name)

validityCol(rows, col, acc) ==
    nonNumericCheck(col, columnValues(rows, col.name),
      nullLikeCheck(col, columnValues(rows, col.name),
        outlierCheck(col, columnValues(rows, col.name),
          zeroCheck(col, columnValues(rows, col.name),
            negativeCheck(col, columnValues(rows, col.name), acc)))))

\* ---- accuracy
mixedCheck(rows, col, acc) ==
    IF col.inferredType = "mixed"
    THEN [n |-> acc.n + roundDiv(Len(rows), 5),
          findings |-> Append(acc.findings, Finding("mixedTypes", col.name, 0)),
          impactedColumns |-> Append(acc.impactedColumns, col.name)]
    ELSE acc

idDuplicatesCheck(rows, col, acc) ==
    IF (nameHas(col, <<"i", "d">>) \/ col.inferredType = "identifier")
       /\ col.uniqueRatio < 100
    THEN LET dupCount == roundDiv((100 - col.uniqueRatio) * Len(rows), 100)
         IN  [n |-> acc.n + dupCount,
              findings |-> Append(acc.findings,
                                  Finding("idDuplicates", col.name, dupCount)),
              impactedColumns |-> pushNew(acc.impactedColumns, col.name)]
    ELSE acc

numericFieldCheck(col, values, acc) ==
    flagged(acc,
            IF \/ nameHas(col, <<"a", "m", "o", "u", "n", "t">>) \/ nameHas(col, <<"p", "r", "i", "c", "e">>)
               \/ nameHas(col, <<"q", "u", "a", "n", "t", "i", "t", "y">>)
            THEN nonNumericCount(values) ELSE 0,
            "nonNumeric", col.name)

emptyStringCheck(col, values, acc) ==
    flagged(acc,
            Cardinality({i \in DOMAIN values : values[i] = StrV(<<>>)}),
            "emptyStrings", col.name)

accuracyCol(rows, col, acc) ==
    emptyStringCheck(col, columnValues(rows, col.name),
      numericFieldCheck(col, columnValues(rows, col.name),
        idDuplicatesCheck(rows, col, mixedCheck(rows, col, acc))))

\* ---- integrity: the loop over the reference columns
isFkColumn(col) ==
    \/ nameHas(col, <<"_", "i", "d">>)
    \/ (endsWith(toLowerCase(col.name), <<"i", "d">>) /\ Len(col.name) > 2)
    \/ nameHas(col, <<"m", "e", "r", "c", "h", "a", "n", "t">>)
    \/ nameHas(col, <<"c", "u", "s", "t", "o", "m", "e", "r">>)

integrityCol(rows, col, acc) ==
    LET nullCount == roundDiv(col.nullRatio * Len(rows), 100)
    IN  IF isFkColumn(col) /\ nullCount > 0
        THEN [n |-> acc.n + nullCount,
              findings |-> Append(acc.findings,
                                  Finding("orphans", col.name, nullCount)),
              impactedColumns |-> Append(acc.impactedColumns, col.name)]
        ELSE acc

\* the body of the scorer's loop over metadata.schema, by dimension id
colStep(id, rows, col, acc) ==
    CASE id = "completeness" -> completenessCol(col, acc)
      [] id = "consistency" -> consistencyCol(rows, col, acc)
      [] id = "uniqueness" -> uniquenessCol(col, acc)
      [] id = "validity" -> validityCol(rows, col, acc)
      [] id = "accuracy" -> accuracyCol(rows, col, acc)
      [] id = "integrity" -> integrityCol(rows, col, acc)

\* for (const col of metadata.schema) { ... }
RECURSIVE schemaLoop(_, _, _, _)
schemaLoop(id, rows, schema, acc) ==
    IF schema = <<>> THEN acc
    ELSE schemaLoop(id, rows, Tail(schema), colStep(id, rows, Head(schema), acc))

\* ---- timeliness.  A Date is the number of its day (days since
\* 1970-01-01, UTC); the current instant lies within the day `today`.
daysFromCivil(y, m, d) ==
    LET yy == IF m <= 2 THEN y - 1 ELSE y
        era == yy \div 400
        yoe == yy - era * 400
        doy == (153 * (IF m > 2 THEN m - 3 ELSE m + 9) + 2) \div 5 + d - 1
        doe == yoe * 365 + yoe \div 4 - yoe \div 100 + doy
    IN  era * 146097 + doe - 719468

DateISOFull == DateISO \o <<EOL>>
DateUSFull == DateUS \o <<EOL>>

\* new Date(text) for the two layouts the inputs of this model use,
\* YYYY-MM-DD and MM/DD/YYYY with a month of 1..12 and a day of 1..31; every
\* other text of the inputs is one no engine parses (Invalid Date)
parseDate(s) ==
    LET iso == test(DateISOFull, s)
        us == test(DateUSFull, s)
        y == IF iso THEN NatOf(Sub(s, 1, 4)) ELSE NatOf(Sub(s, 7, 10))
        m == IF iso THEN NatOf(Sub(s, 6, 7)) ELSE NatOf(Sub(s, 1, 2))
        d == IF iso THEN NatOf(Sub(s, 9, 10)) ELSE NatOf(Sub(s, 4, 5))
    IN  IF (iso \/ us) /\ m \in 1..12 /\ d \in 1..31
        THEN [valid |-> TRUE, day |-> daysFromCivil(y, m, d)]
        ELSE [valid |-> FALSE]

StaleDays == 730

isDateColumn(col) == col.inferredType = "date" \/ nameHas(col, <<"d", "a", "t", "e">>)

\* the sentence of a finding contains 'future dates'
mentionsFutureDates(f) ==
    f.kind = "futureDates" \/ includes(f.col, <<"f", "u", "t", "u", "r", "e", " ", "d", "a", "t", "e", "s">>)

\* the loop body for a text cell once it is counted, date being
\* new Date(dateVal)
datedCell(name, date, today, acc) ==
    IF ~date.valid
    THEN IF name \in Range(acc.impactedColumns)
         THEN [acc EXCEPT !.invalidDates = @ + 1]
         ELSE [acc EXCEPT !.invalidDates = @ + 1,
                          !.impactedColumns = Append(@, name),
                          !.findings = Append(@, Finding("invalidDates",
                                                         name, 0))]
    ELSE LET stale == IF today - date.day >= StaleDays THEN 1 ELSE 0
         IN  IF date.day > today
             THEN IF \E i \in DOMAIN acc.findings :
                         mentionsFutureDates(acc.findings[i])
                  THEN [acc EXCEPT !.futureDates = @ + 1,
                                   !.staleDates = @ + stale]
                  ELSE [acc EXCEPT !.futureDates = @ + 1,
                                   !.staleDates = @ + stale,
                                   !.impactedColumns = Append(@, name),
                                   !.findings = Append(@, Finding("futureDates",
                                                                  name, 0))]
             ELSE [acc EXCEPT !.staleDates = @ + stale]

\* the body of the loops over the date columns and the rows, for one cell
timelinessCell(name, dateVal, today, acc) ==
    IF dateVal.t = "null" \/ dateVal = StrV(<<>>) THEN acc
    ELSE IF dateVal.t # "string" THEN [acc EXCEPT !.totalDates = @ + 1]
    ELSE datedCell(name, parseDate(dateVal.s), today,
                   [acc EXCEPT !.totalDates = @ + 1])

RECURSIVE timelinessLoop(_, _, _)
timelinessLoop(cells, today, acc) ==
    IF cells = <<>> THEN acc
    ELSE timelinessLoop(Tail(cells), today,
                        timelinessCell(cells[1][1], cells[1][2], today, acc))

\* the cells the nested loops visit, column by column and row by row
dateCells(rows, dateColumns) ==
    concatAll([c \in DOMAIN dateColumns |->
                  [i \in DOMAIN rows |->
                      <<dateColumns[c].name, rows[i][dateColumns[c].name]>>]])

\* the scorer after its loops
timelinessResult(acc) ==
    IF acc.totalDates = 0
    THEN [score |-> 80, findings |-> <<Finding("noValidDates", <<>>, 0)>>,
          impactedColumns |-> acc.impactedColumns]
    ELSE [score |-> penaltyScore(150 * acc.futureDates
                                 + 100 * acc.invalidDates
                                 + 30 * acc.staleDates, acc.totalDates),
          findings |-> acc.findings
              \o (IF acc.futureDates > 0
                  THEN <<Finding("futureCount", <<>>, acc.futureDates)>>
                  ELSE <<>>)
              \o (IF acc.invalidDates > 0
                  THEN <<Finding("invalidCount", <<>>, acc.invalidDates)>>
                  ELSE <<>>)
              \o (IF acc.staleDates > 0
                  THEN <<Finding("staleCount", <<>>, acc.staleDates)>>
                  ELSE <<>>),
          impactedColumns |-> acc.impactedColumns]

timelinessDates(rows, dateColumns, today) ==
    IF dateColumns = <<>>
    THEN [score |-> 100, findings |-> <<Finding("noDateColumns", <<>>, 0)>>,
          impactedColumns |-> <<>>]
    ELSE timelinessResult(
             timelinessLoop(dateCells(rows, dateColumns), today,
                 [totalDates |-> 0, futureDates |-> 0, staleDates |-> 0,
                  invalidDates |-> 0, findings |-> <<>>,
                  impactedColumns |-> <<>>]))

timelinessScorer(rows, metadata, today) ==
    timelinessDates(rows, SelectSeq(metadata.schema, isDateColumn), today)

\* Math.round of a quotient a / b (b > 0) that the engine computes in
\* floating point.  Away from an exact half the rounding error cannot change
\* the result; at an exact half the computed value may fall just below it,
\* and `below` says whether it does.
roundFloat(a, b, below) ==
    IF (2 * a) % (2 * b) = b /\ below THEN a \div b ELSE roundDiv(a, b)

atHalf(a, b) == (2 * a) % (2 * b) = b

\* the scorers after their loop over metadata.schema, acc being its tally.
\* completeness: 100 - (1 - filledCells / totalCells) * 150 is the quotient
\* (200 * cols - 3 * acc.n) / (2 * cols)
completenessScore(cols, n, below) ==
    IF 200 * cols - 3 * n <= 0 THEN 0
    ELSE roundFloat(200 * cols - 3 * n, 2 * cols, below)

completenessScorer(metadata, acc, below) ==
    [score |-> completenessScore(Len(metadata.schema), acc.n, below),
     findings |-> acc.findings \o
         (IF completenessScore(Len(metadata.schema), acc.n, below) < 90
          THEN <<Finding("overall", <<>>,
                         roundDiv(100 * Len(metadata.schema) - acc.n,
                                  Len(metadata.schema)))>>
          ELSE <<>>),
     impactedColumns |-> acc.impactedColumns]

consistencyScorer(rows, metadata, acc) ==
    [score |-> penaltyScore(500 * acc.n, Len(rows) * Len(metadata.schema)),
     findings |-> acc.findings,
     impactedColumns |-> acc.impactedColumns]

\* a variant of uniquenessScorer without the penalty of the id columns
uniquenessScorerOfRows(rows, acc) ==
    [score |-> penaltyScore(1500 * duplicateCount(rows), 5 * Len(rows)),
     findings |-> (IF duplicateCount(rows) > 0
                   THEN <<Finding("duplicateRows", <<>>, duplicateCount(rows))>>
                   ELSE <<>>) \o acc.findings,
     impactedColumns |-> acc.impactedColumns]

uniquenessScorer(rows, acc) ==
    [score |-> penaltyScore(1500 * duplicateCount(rows) + Len(rows) * acc.n,
                            5 * Len(rows)),
     findings |-> (IF duplicateCount(rows) > 0
                   THEN <<Finding("duplicateRows", <<>>, duplicateCount(rows))>>
                   ELSE <<>>) \o acc.findings,
     impactedColumns |-> acc.impactedColumns]

validityScorer(rows, metadata, acc) ==
    [score |-> penaltyScore(300 * acc.n, Len(rows) * Len(metadata.schema)),
     findings |-> acc.findings,
     impactedColumns |-> acc.impactedColumns]

accuracyScorer(rows, metadata, acc) ==
    [score |-> penaltyScore(300 * acc.n, Len(rows) * Len(metadata.schema)),
     findings |-> acc.findings,
     impactedColumns |-> acc.impactedColumns]

\* Object.values(row) with more than half of them null or ''
isIncompleteRow(row) ==
    2 * Cardinality({k \in DOMAIN row : row[k] \in {NullV, StrV(<<>>)}})
        > Cardinality(DOMAIN row)

incompleteRowCount(rows) ==
    Cardinality({i \in DOMAIN rows : isIncompleteRow(rows[i])})

\* metadata.schema.some(c => c.name.toLowerCase().includes(text))
someNameHas(schema, text) == \E i \in DOMAIN schema : nameHas(schema[i], text)

\* the nulls of metadata.schema.find(c => ...includes('status')), if any
statusNullCount(schema, totalRecords) ==
    IF someNameHas(schema, <<"s", "t", "a", "t", "u", "s">>)
    THEN LET statusCol ==
                 schema[CHOOSE i \in DOMAIN schema :
                            /\ nameHas(schema[i], <<"s", "t", "a", "t", "u", "s">>)
                            /\ \A j \in 1..(i - 1) :
                                   ~nameHas(schema[j], <<"s", "t", "a", "t", "u", "s">>)]
         IN  IF statusCol.nullRatio > 0
             THEN <<roundDiv(statusCol.nullRatio * totalRecords, 100)>>
             ELSE <<>>
    ELSE <<>>

\* the checks after the loop over the reference columns: incomplete is the
\* number of incomplete rows, noCurrency tells an amount without a currency
\* and statusNulls holds the nulls of the status column when it has some
integrityChecks(totalRecords, acc, incomplete, noCurrency, statusNulls) ==
    [score |-> penaltyScore(
                   100 * (acc.n + 2 * incomplete
                          + (IF noCurrency THEN roundDiv(totalRecords, 10)
                             ELSE 0)
                          + sumSeq(statusNulls)),
                   totalRecords),
     findings |-> acc.findings
         \o (IF incomplete > 0
             THEN <<Finding("incompleteRows", <<>>, incomplete)>> ELSE <<>>)
         \o (IF noCurrency
             THEN <<Finding("amountWithoutCurrency", <<>>, 0)>> ELSE <<>>)
         \o [i \in DOMAIN statusNulls |->
                Finding("statusNulls", <<>>, statusNulls[i])],
     impactedColumns |-> acc.impactedColumns]

integrityScorer(rows, metadata, acc) ==
    integrityChecks(Len(rows), acc, incompleteRowCount(rows),
                    /\ someNameHas(metadata.schema, <<"a", "m", "o", "u", "n", "t">>)
                    /\ ~someNameHas(metadata.schema, <<"c", "u", "r", "r", "e", "n", "c", "y">>),
                    statusNullCount(metadata.schema, Len(rows)))

\* id, name and baseWeight (hundredths) of the seven configurations
DIMENSION_CONFIGS ==
    << [id |-> "completeness", name |-> "Completeness", baseWeight |-> 20],
       [id |-> "consistency", name |-> "Consistency", baseWeight |-> 15],
       [id |-> "uniqueness", name |-> "Uniqueness", baseWeight |-> 15],
       [id |-> "validity", name |-> "Validity", baseWeight |-> 15],
       [id |-> "timeliness", name |-> "Timeliness", baseWeight |-> 10],
       [id |-> "accuracy", name |-> "Accuracy", baseWeight |-> 15],
       [id |-> "integrity", name |-> "Integrity", baseWeight |-> 10] >>

IntegrityMinColumns == 3

\* a variant of applicabilityCheck that takes the inferred type alone for
\* timeliness
applicabilityByType(id, metadata) ==
    CASE id = "timeliness" ->
           \E i \in DOMAIN metadata.schema :
               metadata.schema[i].inferredType = "date"
      [] id = "integrity" -> metadata.columnCount > IntegrityMinColumns
      [] OTHER -> TRUE

\* a variant in which uniqueness applies only when a column looks like an
\* identifier: by its type, by 'id' in its name, or by a unique ratio
\* above 0.9
applicabilityByIdentifier(id, metadata) ==
    CASE id = "timeliness" ->
           \E i \in DOMAIN metadata.schema : isDateColumn(metadata.schema[i])
      [] id = "integrity" -> metadata.columnCount > IntegrityMinColumns
      [] id = "uniqueness" ->
           \E i \in DOMAIN metadata.schema :
               \/ metadata.schema[i].inferredType = "identifier"
               \/ includes(toLowerCase(metadata.schema[i].name), <<"i", "d">>)
               \/ metadata.schema[i].uniqueRatio > 90
      [] OTHER -> TRUE

\* a variant in which integrity applies from IntegrityMinColumns columns on
applicabilityFromThree(id, metadata) ==
    CASE id = "timeliness" ->
           \E i \in DOMAIN metadata.schema : isDateColumn(metadata.schema[i])
      [] id = "integrity" -> metadata.columnCount >= IntegrityMinColumns
      [] OTHER -> TRUE

applicabilityCheck(id, metadata) ==
    CASE id = "timeliness" ->
           \E i \in DOMAIN metadata.schema : isDateColumn(metadata.schema[i])
      [] id = "integrity" -> metadata.columnCount > IntegrityMinColumns
      [] OTHER -> TRUE

\* the result of a scorer whose loop over metadata.schema left the tally acc
scored(id, rows, metadata, acc, fp) ==
    CASE id = "completeness" -> completenessScorer(metadata, acc, fp.completeness)
      [] id = "consistency" -> consistencyScorer(rows, metadata, acc)
      [] id = "uniqueness" -> uniquenessScorer(rows, acc)
      [] id = "validity" -> validityScorer(rows, metadata, acc)
      [] id = "accuracy" -> accuracyScorer(rows, metadata, acc)
      [] id = "integrity" -> integrityScorer(rows, metadata, acc)

\* config.scorer(rows, datasetMetadata); `fp` tells the floating-point
\* outcome at an exact half
scorer(id, rows, metadata, today, fp) ==
    IF id = "timeliness" THEN timelinessScorer(rows, metadata, today)
    ELSE scored(id, rows, metadata,
                schemaLoop(id, rows, metadata.schema, Acc0), fp)

(***************************************************************************)
(* Recommendations, risk summary and compliance status                     *)
(***************************************************************************)
\* threshold, the factor of expectedImprovement in tenths, and the priority
\* of a score below the threshold; accuracy has no recommendation
recommendationOf(dim) ==
    LET s == dim.score
    IN  CASE dim.id = "completeness" ->
               [threshold |-> 80, factor |-> 6,
                priority |-> IF s < 50 THEN "Critical"
                             ELSE IF s < 70 THEN "High" ELSE "Medium"]
          [] dim.id = "uniqueness" ->
               [threshold |-> 90, factor |-> 5,
                priority |-> IF s < 70 THEN "High" ELSE "Medium"]
          [] dim.id = "consistency" ->
               [threshold |-> 80, factor |-> 4,
                priority |-> IF s < 60 THEN "High" ELSE "Medium"]
          [] dim.id = "validity" ->
               [threshold |-> 80, factor |-> 5,
                priority |-> IF s < 60 THEN "Critical" ELSE "High"]
          [] dim.id = "timeliness" ->
               [threshold |-> 80, factor |-> 3,
                priority |-> IF s < 60 THEN "High" ELSE "Medium"]
          [] dim.id = "integrity" ->
               [threshold |-> 80, factor |-> 4,
                priority |-> IF s < 60 THEN "High" ELSE "Medium"]
          [] OTHER -> [threshold |-> 0, factor |-> 0, priority |-> "Low"]

\* the loop without the test of applicable: an inapplicable dimension, whose
\* score is 0, is below every threshold
RECURSIVE recommendationLoopOfAll(_, _)
recommendationLoopOfAll(dimensions, recs) ==
    IF dimensions = <<>> THEN recs
    ELSE LET dim == Head(dimensions)
             r == recommendationOf(dim)
         IN  recommendationLoopOfAll(Tail(dimensions),
                 IF dim.score < r.threshold
                 THEN Append(recs,
                          [id |-> Len(recs) + 1,
                           priority |-> r.priority,
                           dimension |-> dim.id,
                           expectedImprovement |->
                               roundDiv((r.threshold - dim.score) * r.factor, 10)])
                 ELSE recs)

\* the loop of generateRecommendations: recs so far, in push order
RECURSIVE recommendationLoop(_, _)
recommendationLoop(dimensions, recs) ==
    IF dimensions = <<>> THEN recs
    ELSE LET dim == Head(dimensions)
             r == recommendationOf(dim)
         IN  recommendationLoop(Tail(dimensions),
                 IF dim.applicable /\ dim.score < r.threshold
                 THEN Append(recs,
                          [id |-> Len(recs) + 1,
                           priority |-> r.priority,
                           dimension |-> dim.id,
                           expectedImprovement |->
                               roundDiv((r.threshold - dim.score) * r.factor, 10)])
                 ELSE recs)

priorityOrder(p) ==
    CASE p = "Critical" -> 0 [] p = "High" -> 1 [] p = "Medium" -> 2
      [] p = "Low" -> 3

\* a sort by priority that is not stable: equal priorities come out in the
\* reverse of the push order
sortByPriorityReversingTies(recs) ==
    LET backwards == [k \in 1..Len(recs) |-> recs[Len(recs) + 1 - k]]
    IN  concatAll([k \in 1..4 |->
                      SelectSeq(backwards,
                                LAMBDA r : priorityOrder(r.priority) = k - 1)])

\* Array.prototype.sort with the priority comparator: a stable sort
sortByPriority(recs) ==
    concatAll([k \in 1..4 |->
                  SelectSeq(recs, LAMBDA r : priorityOrder(r.priority) = k - 1)])

generateRecommendations(dimensions) ==
    sortByPriority(recommendationLoop(dimensions, <<>>))

\* the sentence is kept as its risk level and the dimension names and count
\* it interpolates
generateRiskSummary(compositeDQS, dimensions) ==
    LET criticalDimensions ==
            SelectSeq(dimensions, LAMBDA d : d.applicable /\ d.score < 60)
        warningDimensions ==
            SelectSeq(dimensions,
                      LAMBDA d : d.applicable /\ d.score >= 60 /\ d.score < 80)
        names(ds) == [i \in DOMAIN ds |-> ds[i].name]
    IN  CASE compositeDQS.grade = "A" ->
               [level |-> "LOW RISK", count |-> 0, names |-> <<>>]
          [] compositeDQS.grade = "B" ->
               [level |-> "MODERATE-LOW RISK",
                count |-> Len(warningDimensions),
                names |-> names(warningDimensions)]
          [] compositeDQS.grade = "C" ->
               [level |-> "MODERATE RISK",
                count |-> Len(warningDimensions) + Len(criticalDimensions),
                names |-> <<>>]
          [] compositeDQS.grade = "D" ->
               [level |-> "HIGH RISK",
                count |-> Len(criticalDimensions),
                names |-> names(criticalDimensions)]
          [] OTHER ->
               [level |-> "CRITICAL RISK",
                count |-> Len(criticalDimensions), names |-> <<>>]

\* a variant of determineComplianceStatus that reads the scores of the
\* dimensions that are not applicable too
determineComplianceOfAll(compositeDQS, dimensions) ==
    IF \/ \E i \in DOMAIN dimensions : dimensions[i].score < 50
       \/ compositeDQS.score < 50
    THEN "NON_COMPLIANT"
    ELSE IF \/ compositeDQS.score < 70
            \/ \E i \in DOMAIN dimensions : dimensions[i].score < 60
    THEN "REQUIRES_REMEDIATION"
    ELSE "COMPLIANT"

determineComplianceStatus(compositeDQS, dimensions) ==
    IF \/ \E i \in DOMAIN dimensions :
              dimensions[i].applicable /\ dimensions[i].score < 50
       \/ compositeDQS.score < 50
    THEN "NON_COMPLIANT"
    ELSE IF \/ compositeDQS.score < 70
            \/ \E i \in DOMAIN dimensions :
                   dimensions[i].applicable /\ dimensions[i].score < 60
    THEN "REQUIRES_REMEDIATION"
    ELSE "COMPLIANT"

(***************************************************************************)
(* analyzeDQI                                                              *)
(***************************************************************************)
HashPrefixLen == 10000

\* generateDataHash: the digest stands for the text it was computed from
generateDataHash(data) == [sha256 |-> data]

\* the anomaly count of step 2: negative amounts, future dates, outliers
\* the three counts that make anomalyCount, for one column
negativeAmounts(values, col) ==
    IF /\ col.statistics.defined /\ nameHas(col, <<"a", "m", "o", "u", "n", "t">>)
       /\ col.statistics.min < 0
    THEN Cardinality({i \in DOMAIN values : /\ values[i].t = "number"
                                            /\ values[i].n < 0})
    ELSE 0

isFuture(date, today) == date.valid /\ date.day > today

futureDateCount(values, col, today) ==
    IF isDateColumn(col)
    THEN Cardinality({i \in DOMAIN values :
             /\ values[i].t = "string" /\ values[i].s # <<>>
             /\ isFuture(parseDate(values[i].s), today)})
    ELSE 0

anomaliesOf(values, col, today) ==
    negativeAmounts(values, col) + futureDateCount(values, col, today)
    + outlierCount(col.statistics, values)

anomalyCountOf(rows, schema, today) ==
    sumSeq([i \in DOMAIN schema |->
               anomaliesOf(columnValues(rows, schema[i].name), schema[i],
                           today)])

\* step 2 once the schema is there: the metadata without its dataHash
summarize(headers, rows, schema, today) ==
    [rowCount |-> Len(rows),
     columnCount |-> Len(headers),
     schema |-> schema,
     statisticalSummary |->
         [totalCells |-> Len(rows) * Len(headers),
          nullCells |-> sumSeq([i \in DOMAIN schema |->
                            roundDiv(schema[i].nullRatio * Len(rows), 100)]),
          uniqueRows |-> Cardinality(Range(rows)),
          duplicateRows |-> Len(rows) - Cardinality(Range(rows)),
          anomalyCount |-> anomalyCountOf(rows, schema, today)]]

\* step 2 up to the await of the hash
extractMetadata(headers, rows, today) ==
    summarize(headers, rows,
              [i \in DOMAIN headers |->
                  extractColumnSchema(headers[i],
                                      columnValues(rows, headers[i]))],
              today)

\* step 3, the body of the loop over DIMENSION_CONFIGS: weight is still the
\* base weight
applicableDimension(config, result) ==
    [id |-> config.id, name |-> config.name, score |-> result.score,
     weight |-> config.baseWeight, applicable |-> TRUE,
     findings |-> result.findings,
     impactedColumns |-> result.impactedColumns]

\* a variant of evaluateDimension that leaves its base weight to a dimension
\* that is not applicable
evaluateDimensionWeighted(config, rows, metadata, today, fp) ==
    IF applicabilityCheck(config.id, metadata)
    THEN applicableDimension(config,
                             scorer(config.id, rows, metadata, today, fp))
    ELSE [id |-> config.id, name |-> config.name, score |-> 0,
          weight |-> config.baseWeight, applicable |-> FALSE,
          findings |-> <<Finding("notApplicable", <<>>, 0)>>,
          impactedColumns |-> <<>>]

evaluateDimension(config, rows, metadata, today, fp) ==
    IF applicabilityCheck(config.id, metadata)
    THEN applicableDimension(config,
                             scorer(config.id, rows, metadata, today, fp))
    ELSE [id |-> config.id, name |-> config.name, score |-> 0,
          weight |-> 0, applicable |-> FALSE,
          findings |-> <<Finding("notApplicable", <<>>, 0)>>,
          impactedColumns |-> <<>>]

\* a variant of normalizeWeight that rounds down
normalizeWeightDown(weight, totalWeight) == (100 * weight) \div totalWeight

\* dim.weight = Math.round((dim.weight / totalWeight) * 100) / 100
normalizeWeight(weight, totalWeight) == roundDiv(100 * weight, totalWeight)

\* step 3, the normalisation: the weights of the applicable dimensions
\* divided by their sum
normalizeWeights(dimensions) ==
    LET totalWeight == sumSeq([i \in DOMAIN dimensions |->
                                  IF dimensions[i].applicable
                                  THEN dimensions[i].weight ELSE 0])
    IN  [i \in DOMAIN dimensions |->
            IF dimensions[i].applicable
            THEN [dimensions[i] EXCEPT
                     !.weight = normalizeWeight(dimensions[i].weight,
                                                totalWeight)]
            ELSE dimensions[i]]

scoreDimensions(rows, metadata, today, fp) ==
    normalizeWeights([i \in DOMAIN DIMENSION_CONFIGS |->
                         evaluateDimension(DIMENSION_CONFIGS[i], rows, metadata,
                                           today, fp)])

\* 100 times the weighted score: scores times weights in hundredths
weightedScore(dimensions) ==
    sumSeq([i \in DOMAIN dimensions |->
               IF dimensions[i].applicable
               THEN dimensions[i].score * dimensions[i].weight ELSE 0])

\* Log10Tenths[k] is the least n with Math.round(10 * log10(n)) >= k, that
\* is with n^20 >= 10^(2k - 1)
Log10Tenths == <<2, 2, 2, 3, 3, 4, 5, 6, 8, 9, 12, 15, 18, 23, 29, 36, 45, 57,
                 71, 90, 113, 142, 178, 224, 282, 355, 447, 563, 708, 892>>

MaxConfidence == 95

\* a variant of confidenceOf without the cap
confidenceUncapped(rowCount) ==
    70 + Cardinality({k \in DOMAIN Log10Tenths : Log10Tenths[k] <= rowCount})

\* Math.min(95, Math.round(70 + Math.log10(rowCount) * 10))
confidenceOf(rowCount) ==
    LET c == 70 + Cardinality({k \in DOMAIN Log10Tenths :
                                   Log10Tenths[k] <= rowCount})
    IN  IF c > MaxConfidence THEN MaxConfidence ELSE c

\* step 4
compositeOf(dimensions, rowCount, fp) ==
    LET score == roundFloat(weightedScore(dimensions), 100, fp.composite)
    IN  [score |-> score,
         grade |-> calculateGrade(score),
         confidence |-> confidenceOf(rowCount)]

\* steps 6 to 8 (the explanations of step 5 are sentences about the
\* dimensions and are left out)
assembleReport(metadata, dataHash, dimensions, compositeDQS) ==
    [datasetMetadata |->
         [rowCount |-> metadata.rowCount,
          columnCount |-> metadata.columnCount,
          schema |-> metadata.schema,
          statisticalSummary |-> metadata.statisticalSummary,
          dataHash |-> dataHash],
     dimensions |-> dimensions,
     compositeDQS |-> compositeDQS,
     recommendations |-> generateRecommendations(dimensions),
     overallRiskSummary |-> generateRiskSummary(compositeDQS, dimensions),
     complianceStatus |-> determineComplianceStatus(compositeDQS, dimensions),
     auditTrail |-> [engineVersion |-> "1.0.0", checksumVerified |-> TRUE]]

scoredReport(metadata, dataHash, dimensions, rowCount, fp) ==
    assembleReport(metadata, dataHash, dimensions,
                   compositeOf(dimensions, rowCount, fp))

\* steps 3 to 8, run when the hash is there
buildReport(rows, metadata, dataHash, today, fp) ==
    scoredReport(metadata, dataHash,
                 scoreDimensions(rows, metadata, today, fp), Len(rows), fp)

(***************************************************************************)
(* Inputs: the files the model analyses.  A file is a header line and up   *)
(* to MaxRows data lines drawn, with repetition, from the lines of one     *)
(* template, joined by "\n"; or one of a few contents without data.        *)
(***************************************************************************)
MaxRows == 4

LongText == <<"t", "h", "e", " ", "q", "u", "i", "c", "k", " ", "b", "r", "o", "w", "n", " ", "f", "o", "x", " ", "j", "u", "m", "p", "s", " ", "o", "v", "e", "r", " ", "t", "h", "e", " ", "l", "a", "z", "y", " ", "d", "o", "g", " ", "a", "n", "d", " ", "k", "e", "e", "p", "s", " ", "r", "u", "n", "n", "i", "n", "g">>

Templates ==
    << \* two text columns: neither timeliness nor integrity applies
       [header |-> <<"n", "a", "m", "e", ",", "c", "i", "t", "y">>,
        lines |-> << <<"a", "l", "i", "c", "e", ",", "p", "a", "r", "i", "s">>, <<"A", "l", "i", "c", "e", ",", " ", "P", "A", "R", "I", "S", " ">>, <<"c", "a", "r", "o", "l">> >>],
       \* three columns with a date: timeliness applies
       [header |-> <<"i", "d", ",", "a", "m", "o", "u", "n", "t", ",", "d", "a", "t", "e">>,
        lines |-> << <<"1", ",", "1", "0", ",", "2", "0", "2", "4", "-", "0", "1", "-", "0", "5">>, <<"2", ",", "-", "5", ",", "2", "9", "9", "9", "-", "0", "1", "-", "0", "1">>, <<"2", ",", "0", ",", "h", "e", "l", "l", "o">> >>],
       \* four columns without a date: integrity applies
       [header |-> <<"t", "x", "n", "_", "i", "d", ",", "c", "u", "s", "t", "o", "m", "e", "r", ",", "s", "t", "a", "t", "u", "s", ",", "a", "m", "o", "u", "n", "t">>,
        lines |-> << <<"T", "1", ",", "a", "c", "m", "e", ",", "o", "k", ",", "1", "0">>, <<"N", "A", ",", "N", "A", ",", "N", "A", ",", "N", "A">>,
                     <<"T", "3", ",", "\"", "s", "m", "i", "t", "h", ",", " ", "j", "\"", ",", "O", "K", ",", "n", "/", "a">> >>],
       \* four columns with a date: all seven dimensions apply
       [header |-> <<"o", "r", "d", "e", "r", "_", "i", "d", ",", "o", "r", "d", "e", "r", "_", "d", "a", "t", "e", ",", "p", "r", "i", "c", "e", ",", "c", "u", "r", "r", "e", "n", "c", "y">>,
        lines |-> << <<"A", "1", ",", "2", "0", "2", "4", "-", "0", "1", "-", "0", "5", ",", "9", ".", "9", "9", ",", "U", "S", "D">>, <<"A", "3", ",", "2", "9", "9", "9", "-", "0", "1", "-", "0", "1", ",", "-", "5", ",", "u", "s", "d">>,
                     <<"A", "1", ",", "h", "e", "l", "l", "o", ",", "0", "0", "7", ",", "G", "B", "P">> >>],
       \* sensitive names and sensitive values
       [header |-> <<"p", "i", "n", ",", "c", "o", "n", "t", "a", "c", "t", ",", "m", "e", "m", "o">>,
        lines |-> << <<"1", "2", ",", "a", "@", "b", ".", "c", "o", ",", "o", "k">>, <<"3", "4", ",", "5", "5", "5", "-", "1", "2", "3", "-", "4", "5", "6", "7", ",", "1", "2", "3">>,
                     <<"N", "A", ",", "1", "2", "3", "-", "4", "5", "-", "6", "7", "8", "9", ",">> \o LongText >>],
       \* one column: a blank line is a row
       [header |-> <<"c", "a", "r", "d", "_", "n", "u", "m", "b", "e", "r">>,
        lines |-> << <<"4", "1", "1", "1", "-", "1", "1", "1", "1", "-", "1", "1", "1", "1", "-", "1", "1", "1", "1">>, <<>>, <<"x", ",", "y">> >>] >>

\* five data rows of which the third repeats the second
FiveRows ==
    <<"i", "d", ",", "a", "m", "o", "u", "n", "t", ",", "d", "a", "t", "e", "\n", "1", ",", "1", "0", ",", "2", "0", "2", "4", "-", "0", "1", "-", "0", "5", "\n", "2", ",", "2", "0", ",", "2", "0", "2", "4", "-", "0", "2", "-", "0", "5", "\n", "2", ",", "2", "0", ",", "2", "0", "2", "4", "-", "0", "2", "-", "0", "5", "\n", "3", ",", "3", "0", ",", "2", "0", "2", "4", "-", "0", "3", "-", "0", "5", "\n", "4", ",", "4", "0", ",", "2", "0", "2", "4", "-", "0", "4", "-", "0", "5">>

\* five values of one column: four numbers and a text
FourOfFive ==
    <<"q", "t", "y", "\n", "1", "\n", "2", "\n", "3", "\n", "4", "\n", "x">>

\* one row of four columns whose only defect is a date in the future
FutureOnly ==
    <<"o", "r", "d", "e", "r", "_", "i", "d", ",", "o", "r", "d", "e", "r", "_", "d", "a", "t", "e", ",", "p", "r", "i", "c", "e", ",", "c", "u", "r", "r", "e", "n", "c", "y", "\n", "A", "2", ",", "2", "9", "9", "9", "-", "0", "1", "-", "0", "1", ",", "5", ",", "U", "S", "D">>

\* the other contents: without data, with a header named twice, with a
\* date under a name that does not say so, FiveRows, FourOfFive, FutureOnly
OtherContents ==
    { <<>>, <<" ", "\n">>, <<"a", ",", "b", "\n", "\n", "\n">>,
      <<"a", ",", "a", "\n", "1", ",", "2", "\n", "1", ",", "3">>,
      <<"w", "h", "e", "n", "\n", "2", "0", "2", "4", "-", "0", "1", "-", "0", "5">>,
      FiveRows, FourOfFive, FutureOnly }

contentOf(t, pick) ==
    join(<<Templates[t].header>>
         \o [i \in DOMAIN pick |-> Templates[t].lines[pick[i]]], <<"\n">>)

Contents ==
    OtherContents \cup
    {contentOf(tp[1], tp[2]) :
        tp \in {tp \in (DOMAIN Templates)
                       \X UNION {[1..n -> 1..3] : n \in 0..MaxRows} :
                   \A i \in DOMAIN tp[2] :
                       tp[2][i] \in DOMAIN Templates[tp[1]].lines}}

\* the days the clock of the model shows: 2025-06-01 and 2026-06-01
Days == <<daysFromCivil(2025, 6, 1), daysFromCivil(2026, 6, 1)>>

(***************************************************************************)
(* The state machine: analyzeDQI, its callers and the report store          *)
(***************************************************************************)
VARIABLES
    pc,        \* "idle" | "reading" | "hashing" | "resolved" | "rejected"
    file,      \* <<>> or <<content>>: the text of the File being analysed
    pending,   \* <<>> or <<[rows, metadata]>>: the locals kept over the await
    report,    \* <<>> or <<report>>: the value the promise resolved with
    error,     \* <<>> or <<message>>: the Error the promise rejected with
    clock,     \* index in Days of the current day
    rounding,  \* how the arithmetic of the platform rounds at an exact half
    store,     \* <<>> or <<blob>>: the item 'dqi_report' of localStorage
    summary,   \* <<>> or <<report>>: what the dashboard has loaded
    probe,     \* <<>> or <<r>>: an argument given to one function of the
               \* engine and the result it returned
    calls      \* the invocations in flight together: of each, what pc, file,
               \* pending, report and error are of the single one

vars == <<pc, file, pending, report, error, clock, rounding, store, summary,
          probe, calls>>

\* what analyzeDQI does not touch
outside == <<rounding, store, summary, probe, calls>>

Roundings == [completeness : BOOLEAN, composite : BOOLEAN]

today == Days[clock]

Init ==
    /\ pc = "idle"
    /\ file = <<>>
    /\ pending = <<>>
    /\ report = <<>>
    /\ error = <<>>
    /\ clock = 1
    /\ rounding = [completeness |-> FALSE, composite |-> FALSE]
    /\ store = <<>>
    /\ summary = <<>>
    /\ probe = <<>>
    /\ calls = <<>>

\* analyzeDQI(file): the promise is created and reader.readAsText started
Analyze(content) ==
    /\ pc = "idle"
    /\ pc' = "reading"
    /\ file' = <<content>>
    /\ pending' = <<>>
    /\ report' = <<>>
    /\ error' = <<>>
    /\ UNCHANGED <<clock, outside>>

\* reader.onerror
ReadError ==
    /\ pc = "reading"
    /\ pc' = "rejected"
    /\ error' = <<"Failed to read file">>
    /\ UNCHANGED <<file, pending, report, clock, outside>>

\* a variant of Loaded that reports the lack of rows as a failure to read
LoadedMisreported(parsed) ==
    IF Len(parsed.rows) = 0
    THEN /\ pc' = "rejected"
         /\ error' = <<"Failed to read file">>
         /\ UNCHANGED pending
    ELSE /\ pc' = "hashing"
         /\ pending' = <<[rows |-> parsed.rows,
                          metadata |-> extractMetadata(parsed.headers,
                                                       parsed.rows, today)]>>
         /\ UNCHANGED error

\* reader.onload from the parsed content up to the await of
\* generateDataHash, or to the throw
Loaded(parsed) ==
    IF Len(parsed.rows) = 0
    THEN /\ pc' = "rejected"
         /\ error' = <<"No data found in file">>
         /\ UNCHANGED pending
    ELSE /\ pc' = "hashing"
         /\ pending' = <<[rows |-> parsed.rows,
                          metadata |-> extractMetadata(parsed.headers,
                                                       parsed.rows, today)]>>
         /\ UNCHANGED error

OnLoad ==
    /\ pc = "reading"
    /\ Loaded(parseCSVContent(file[1]))
    /\ UNCHANGED <<file, report, clock, outside>>

\* the digest arrives: steps 3 to 8 and resolve(report); fp is the rounding
\* of this computation at an exact half
HashResolved(fp) ==
    /\ pc = "hashing"
    /\ report' = <<buildReport(pending[1].rows, pending[1].metadata,
                        generateDataHash(firstN(file[1], HashPrefixLen)),
                        today, fp)>>
    /\ pc' = "resolved"
    /\ pending' = <<>>
    /\ UNCHANGED <<file, error, clock, outside>>

\* a catch block that rejects and still hands out a report, without a hash
HashRejectedWithReport ==
    /\ pc = "hashing"
    /\ pc' = "rejected"
    /\ error' = <<"digest failed">>
    /\ report' = <<buildReport(pending[1].rows, pending[1].metadata, <<>>,
                        today, [completeness |-> FALSE, composite |-> FALSE])>>
    /\ pending' = <<>>
    /\ UNCHANGED <<file, clock, outside>>

\* crypto.subtle.digest rejects: the catch block rejects the promise
HashRejected ==
    /\ pc = "hashing"
    /\ pc' = "rejected"
    /\ error' = <<"digest failed">>
    /\ pending' = <<>>
    /\ UNCHANGED <<file, report, clock, outside>>

\* time passes
Tick ==
    /\ clock < Len(Days)
    /\ clock' = clock + 1
    /\ UNCHANGED <<pc, file, pending, report, error, outside>>

\* one invocation of analyzeDQI on any of the files, at any rounding
Next ==
    \/ \E content \in Contents : Analyze(content)
    \/ ReadError
    \/ OnLoad
    \/ \E fp \in Roundings : HashResolved(fp)
    \/ HashRejected
    \/ Tick

Spec == Init /\ [][Next]_vars

(***************************************************************************)
(* The report store and the callers of analyzeDQI.  A blob is the text     *)
(* JSON.stringify gives for a report, or a text that is not of this        *)
(* program's making; null is <<>>.                                         *)
(***************************************************************************)
stringify(r) == [json |-> TRUE, value |-> r]

\* JSON.parse: the value of a text that JSON.stringify made, a SyntaxError
\* for the other texts of the model
parse(blob) ==
    IF blob.json THEN [thrown |-> FALSE, value |-> blob.value]
    ELSE [thrown |-> TRUE]

\* texts that are not JSON: the empty string and an opening brace
ForeignTexts == { <<>>, <<"{">> }

\* a store that keeps the first report: the item is written only when there
\* is none
storeDQIReportOnce(r) == IF store = <<>> THEN <<stringify(r)>> ELSE store

\* the item after localStorage.setItem('dqi_report', JSON.stringify(report))
storeDQIReport(r) == <<stringify(r)>>

\* the result of getStoredDQIReport for an item: <<>> is null
parsedItem(result) == IF result.thrown THEN <<>> ELSE <<result.value>>

getStoredDQIReport(item) ==
    IF item = <<>> THEN <<>>
    ELSE IF ~item[1].json /\ item[1].text = <<>> THEN <<>>
    ELSE parsedItem(parse(item[1]))

\* handleAnalyze once analyzeDQI has resolved: storeDQIReport(report), and
\* the page is left for the dashboard or handed the report
Stored ==
    /\ pc = "resolved"
    /\ store' = storeDQIReport(report[1])
    /\ pc' = "idle"
    /\ UNCHANGED <<file, pending, report, error, clock, rounding, summary,
                   probe, calls>>

\* a catch block that stores what the failed analysis left: the message
FailedAndStored ==
    /\ pc = "rejected"
    /\ pc' = "idle"
    /\ store' = <<stringify([error |-> error[1]])>>
    /\ UNCHANGED <<file, pending, report, error, clock, rounding, summary,
                   probe, calls>>

\* handleAnalyze once analyzeDQI has rejected: the catch block shows the
\* failure and the page waits for another file
Failed ==
    /\ pc = "rejected"
    /\ pc' = "idle"
    /\ UNCHANGED <<file, pending, report, error, clock, outside>>

\* the effect of the dashboard: getStoredDQIReport, and the summary is set
\* when a report comes back
LoadDashboard ==
    /\ pc = "idle"
    /\ summary' = getStoredDQIReport(store)
    /\ UNCHANGED <<pc, file, pending, report, error, clock, rounding, store,
                   probe, calls>>

\* clearStoredDQIReport
ClearStored ==
    /\ pc = "idle"
    /\ store' = <<>>
    /\ UNCHANGED <<pc, file, pending, report, error, clock, rounding, summary,
                   probe, calls>>

\* the item is written from outside this program
ForeignWrite(text) ==
    /\ pc = "idle"
    /\ store' = <<[json |-> FALSE, text |-> text]>>
    /\ UNCHANGED <<pc, file, pending, report, error, clock, rounding, summary,
                   probe, calls>>

\* the files of the application: without data, without a date, with a date
\* that becomes stale, with a date in the future too
AppContents ==
    { <<>>, contentOf(1, <<1>>), contentOf(2, <<1>>), contentOf(2, <<1, 2>>) }

\* the rounding at an exact half is the platform's: it is not known, and it
\* is the same in every analysis
AppInit ==
    /\ pc = "idle"
    /\ file = <<>>
    /\ pending = <<>>
    /\ report = <<>>
    /\ error = <<>>
    /\ clock = 1
    /\ rounding \in Roundings
    /\ store = <<>>
    /\ summary = <<>>
    /\ probe = <<>>
    /\ calls = <<>>

AppNext ==
    \/ \E content \in AppContents : Analyze(content)
    \/ ReadError
    \/ OnLoad
    \/ HashResolved(rounding)
    \/ HashRejected
    \/ Tick
    \/ Stored
    \/ Failed
    \/ LoadDashboard
    \/ ClearStored
    \/ \E text \in ForeignTexts : ForeignWrite(text)

AppSpec == AppInit /\ [][AppNext]_vars

(***************************************************************************)
(* analyzeDQI on the files of OrderRows data lines of the two templates    *)
(* with an id column, in every order of their lines                        *)
(***************************************************************************)
OrderRows == 3

OrderContents ==
    {contentOf(tp[1], tp[2]) : tp \in {2, 4} \X [1..OrderRows -> 1..3]}

OrderNext ==
    \/ \E content \in OrderContents : Analyze(content)
    \/ ReadError
    \/ OnLoad
    \/ \E fp \in Roundings : HashResolved(fp)
    \/ HashRejected
    \/ Tick

OrderSpec == Init /\ [][OrderNext]_vars

\* the files of the invocations that are followed to their end: the files
\* of OrderContents and the contents without data
SettleContents == OrderContents \cup OtherContents

SettleNext ==
    \/ \E content \in SettleContents : Analyze(content)
    \/ ReadError
    \/ OnLoad
    \/ \E fp \in Roundings : HashResolved(fp)
    \/ HashRejected
    \/ Tick

\* the reader fires load or error, and the digest is fulfilled or rejected:
\* neither event is withheld for ever
FairSpec ==
    /\ Init
    /\ [][SettleNext]_vars
    /\ WF_vars(ReadError \/ OnLoad)
    /\ WF_vars(HashRejected \/ \E fp \in Roundings : HashResolved(fp))

(***************************************************************************)
(* The confidence of a report as a function of the number of rows          *)
(***************************************************************************)
MaxProbeRows == 400

Probe(n) ==
    /\ probe' = <<[rows |-> n, confidence |-> confidenceOf(n)]>>
    /\ UNCHANGED <<pc, file, pending, report, error, clock, rounding, store,
                   summary, calls>>

ProbeNext == \E n \in 1..MaxProbeRows : Probe(n)

ProbeSpec == Init /\ [][ProbeNext]_vars

(***************************************************************************)
(* parseValue on one field, one call in a behaviour: the texts of up to    *)
(* MaxFieldLen characters of FieldAlphabet and the fields of NamedFields   *)
(***************************************************************************)
MaxFieldLen == 3

FieldAlphabet == {"0", "7", "$", ",", "-", "a", "n"}

NamedFields ==
    { <<"n", "u", "l", "l">>,
      <<"N", "U", "L", "L">>,
      <<"N", "a">>,
      <<"N", "/", "A">>,
      <<"t", "r", "u", "e">>,
      <<"T", "R", "U", "E">>,
      <<"F", "a", "l", "s", "e">>,
      <<"y", "e", "s">>,
      <<"0", "0", "7">>,
      <<"0", ".", "5">>,
      <<"0", "0", ".", "5">>,
      <<"1", "2", ".", "5", "0">>,
      <<"$", "1", ",", "0", "0", "0", ".", "5", "0">>,
      <<"1", ",", "5">>,
      <<"\"", "7", "\"">>,
      <<" ", "7", " ">>,
      <<"x">> }

Fields ==
    NamedFields \cup UNION {[1..n -> FieldAlphabet] : n \in 0..MaxFieldLen}

ParseField(field) ==
    /\ probe = <<>>
    /\ probe' = <<[field |-> field, value |-> parseValue(field)]>>
    /\ UNCHANGED <<pc, file, pending, report, error, clock, rounding, store,
                   summary, calls>>

FieldNext == \E field \in Fields : ParseField(field)

FieldSpec == Init /\ [][FieldNext]_vars

(***************************************************************************)
(* parseCSVLine on one line, one call in a behaviour: the texts of up to   *)
(* MaxLineLen characters of LineAlphabet                                   *)
(***************************************************************************)
MaxLineLen == 5

LineAlphabet == {",", "\"", "a", " "}

Lines == UNION {[1..n -> LineAlphabet] : n \in 0..MaxLineLen}

ParseLine(line) ==
    /\ probe = <<>>
    /\ probe' = <<[line |-> line, fields |-> parseCSVLine(line)]>>
    /\ UNCHANGED <<pc, file, pending, report, error, clock, rounding, store,
                   summary, calls>>

LineNext == \E line \in Lines : ParseLine(line)

LineSpec == Init /\ [][LineNext]_vars

(***************************************************************************)
(* Two invocations of analyzeDQI in flight together.  Each invocation is   *)
(* one call of the function: its content, rows and metadata are locals of  *)
(* its own closure.  An invocation runs without interruption from the load *)
(* event to the await of the hash, and from the hash to resolve.           *)
(***************************************************************************)
Callers == 1..2

notCalled ==
    [pc |-> "idle", file |-> <<>>, pending |-> <<>>, report |-> <<>>,
     error |-> <<>>]

\* rows and metadata kept in one place for all invocations: what an
\* invocation keeps replaces what another one is waiting with
keptInOnePlace(cs, i, locals) ==
    [j \in DOMAIN cs |->
        IF j = i THEN [cs[j] EXCEPT !.pc = "hashing", !.pending = <<locals>>]
        ELSE IF cs[j].pc = "hashing"
             THEN [cs[j] EXCEPT !.pending = <<locals>>]
             ELSE cs[j]]

\* the locals of invocation i at the await: its own rows and metadata
keptOverAwait(cs, i, locals) ==
    [cs EXCEPT ![i] = [@ EXCEPT !.pc = "hashing", !.pending = <<locals>>]]

rejectedWith(cs, i, message) ==
    [cs EXCEPT ![i] = [@ EXCEPT !.pc = "rejected", !.pending = <<>>,
                                !.error = <<message>>]]

outsideCalls ==
    <<pc, file, pending, report, error, clock, rounding, store, summary,
      probe>>

CallAnalyze(i, content) ==
    /\ calls[i].pc = "idle"
    /\ \A j \in Callers \ {i} : calls[j].file # <<content>>
    /\ calls' = [calls EXCEPT ![i] = [@ EXCEPT !.pc = "reading",
                                               !.file = <<content>>]]
    /\ UNCHANGED outsideCalls

CallReadError(i) ==
    /\ calls[i].pc = "reading"
    /\ calls' = rejectedWith(calls, i, "Failed to read file")
    /\ UNCHANGED outsideCalls

CallLoaded(i, parsed) ==
    IF Len(parsed.rows) = 0
    THEN calls' = rejectedWith(calls, i, "No data found in file")
    ELSE calls' = keptOverAwait(calls, i,
                      [rows |-> parsed.rows,
                       metadata |-> extractMetadata(parsed.headers,
                                                    parsed.rows, today)])

CallOnLoad(i) ==
    /\ calls[i].pc = "reading"
    /\ CallLoaded(i, parseCSVContent(calls[i].file[1]))
    /\ UNCHANGED outsideCalls

CallHashResolved(i) ==
    /\ calls[i].pc = "hashing"
    /\ calls' = [calls EXCEPT ![i] =
                    [@ EXCEPT !.pc = "resolved",
                              !.pending = <<>>,
                              !.report =
                                  <<buildReport(calls[i].pending[1].rows,
                                        calls[i].pending[1].metadata,
                                        generateDataHash(
                                            firstN(calls[i].file[1],
                                                   HashPrefixLen)),
                                        today, rounding)>>]]
    /\ UNCHANGED outsideCalls

CallHashRejected(i) ==
    /\ calls[i].pc = "hashing"
    /\ calls' = rejectedWith(calls, i, "digest failed")
    /\ UNCHANGED outsideCalls

TwoInit ==
    /\ pc = "idle"
    /\ file = <<>>
    /\ pending = <<>>
    /\ report = <<>>
    /\ error = <<>>
    /\ clock = 1
    /\ rounding \in Roundings
    /\ store = <<>>
    /\ summary = <<>>
    /\ probe = <<>>
    /\ calls = [i \in Callers |-> notCalled]

TwoNext ==
    \E i \in Callers :
        \/ \E content \in AppContents : CallAnalyze(i, content)
        \/ CallReadError(i)
        \/ CallOnLoad(i)
        \/ CallHashResolved(i)
        \/ CallHashRejected(i)

TwoSpec == TwoInit /\ [][TwoNext]_vars

(***************************************************************************)
(* The properties of the report and of the rejections                      *)
(***************************************************************************)
hasReport == report # <<>>

dimensionsOf == report[1].dimensions
compositeScore == report[1].compositeDQS.score
schemaOf == report[1].datasetMetadata.schema

applicableOnes == {i \in DOMAIN dimensionsOf : dimensionsOf[i].applicable}

\* the lines of the submitted file and, among the lines after the first,
\* those with as many fields as the first
fileLines == split(trim(file[1]), "\n")

wellFormed ==
    {i \in 2..Len(fileLines) :
        Len(parseCSVLine(fileLines[i])) = Len(parseCSVLine(fileLines[1]))}

\* the rows of the submitted file and the non-null cells of one of their
\* columns, in row order
fileRows == parseCSVContent(file[1]).rows

rawCells(rows, name) == nonNull(columnValues(rows, name))

\* C1: in every report each of the 7 dimension scores and the composite score
\* is an integer from 0 to 100
C1_ScoresWithinBounds ==
    hasReport =>
        /\ \A i \in DOMAIN dimensionsOf : dimensionsOf[i].score \in 0..100
        /\ compositeScore \in 0..100

\* C2: in every report the weights of the applicable dimensions sum to 1
\* within 0.02 (weights are in hundredths)
appliedWeight ==
    sumSeq([i \in DOMAIN dimensionsOf |->
               IF dimensionsOf[i].applicable THEN dimensionsOf[i].weight ELSE 0])

C2_WeightsSumToOne == hasReport => appliedWeight \in 98..102

C2_RoundedUpPastOne ==
    /\ hasReport
    /\ ~dimensionsOf[5].applicable
    /\ ~dimensionsOf[7].applicable
    /\ appliedWeight = 101

\* C3: every report holds the 7 fixed dimensions, each once and in the fixed
\* order, and a dimension that is not applicable has score 0 and weight 0
FixedDimensions ==
    <<"completeness", "consistency", "uniqueness", "validity", "timeliness",
      "accuracy", "integrity">>

C3_SevenFixedDimensions ==
    hasReport =>
        /\ [i \in DOMAIN dimensionsOf |-> dimensionsOf[i].id] = FixedDimensions
        /\ \A i \in DOMAIN dimensionsOf :
              ~dimensionsOf[i].applicable =>
                  dimensionsOf[i].score = 0 /\ dimensionsOf[i].weight = 0

C3_SomeNotApplicable ==
    /\ hasReport
    /\ applicableOnes # {}
    /\ applicableOnes # DOMAIN dimensionsOf

\* C4: the grade of every report follows from the composite score with
\* inclusive lower bounds: from 90 A, 80 to 89 B, 70 to 79 C, 60 to 69 D,
\* below 60 F
C4_GradeOfScore ==
    hasReport =>
        /\ compositeScore >= 90 => report[1].compositeDQS.grade = "A"
        /\ compositeScore \in 80..89 => report[1].compositeDQS.grade = "B"
        /\ compositeScore \in 70..79 => report[1].compositeDQS.grade = "C"
        /\ compositeScore \in 60..69 => report[1].compositeDQS.grade = "D"
        /\ compositeScore < 60 => report[1].compositeDQS.grade = "F"

C4_LowestC ==
    /\ hasReport
    /\ compositeScore = 70
    /\ report[1].compositeDQS.grade = "C"

\* C5: the compliance status is NON_COMPLIANT exactly when an applicable
\* dimension or the composite is below 50, otherwise REQUIRES_REMEDIATION
\* exactly when the composite is below 70 or an applicable dimension is below
\* 60, otherwise COMPLIANT; the dimensions that are not applicable play no part
lowestApplicable(bound) ==
    \E i \in applicableOnes : dimensionsOf[i].score < bound

C5_ComplianceOfScores ==
    hasReport =>
        /\ report[1].complianceStatus = "NON_COMPLIANT"
              <=> (lowestApplicable(50) \/ compositeScore < 50)
        /\ report[1].complianceStatus = "REQUIRES_REMEDIATION"
              <=> /\ ~(lowestApplicable(50) \/ compositeScore < 50)
                  /\ (compositeScore < 70 \/ lowestApplicable(60))
        /\ report[1].complianceStatus = "COMPLIANT"
              <=> /\ ~(lowestApplicable(50) \/ compositeScore < 50)
                  /\ ~(compositeScore < 70 \/ lowestApplicable(60))

C5_CompliantWithoutAll ==
    /\ hasReport
    /\ applicableOnes # DOMAIN dimensionsOf
    /\ report[1].complianceStatus = "COMPLIANT"

\* C6: a file without a well-formed data line (empty, header only, or every
\* data line of another field count than the header) is rejected with
\* 'No data found in file' once it is loaded, and never has a report
C6_NoDataRejected ==
    /\ [](hasReport => wellFormed # {})
    /\ [][pc = "reading" /\ wellFormed = {} /\ OnLoad =>
             /\ pc' = "rejected"
             /\ error' = <<"No data found in file">>
             /\ report' = <<>>]_vars

C6_AllLinesDropped ==
    /\ pc = "rejected"
    /\ error = <<"No data found in file">>
    /\ Len(fileLines) > 1
    /\ wellFormed = {}

\* C7: a data line of another field count than the header is left out
\* without an error: a file with a well-formed data line that was read goes
\* on to the analysis, and rowCount is the number of well-formed data lines
C7_MalformedLinesExcluded ==
    /\ [](hasReport =>
             report[1].datasetMetadata.rowCount = Cardinality(wellFormed))
    /\ [][pc = "reading" /\ wellFormed # {} /\ pc' # "reading" /\ ~ReadError
             => pc' = "hashing" /\ error' = <<>>]_vars

C7_ReportDespiteMalformed ==
    /\ hasReport
    /\ wellFormed # {}
    /\ wellFormed # 2..Len(fileLines)

\* C8: a sample of a column with a sensitive name, and a sample of any column
\* whose text matches a sensitive pattern, is the redaction marker
matchesSensitive(value) ==
    \E i \in DOMAIN SENSITIVE_PATTERNS : test(SENSITIVE_PATTERNS[i], value)

redactedSamples(col, raw) ==
    \A k \in DOMAIN col.sampleValues :
        (isSensitiveColumn(col.name) \/ matchesSensitive(String(raw[k])))
            => col.sampleValues[k] = REDACTED

allRedacted(schema, rows) ==
    \A c \in DOMAIN schema :
        redactedSamples(schema[c], rawCells(rows, schema[c].name))

C8_SensitiveSamplesRedacted == hasReport => allRedacted(schemaOf, fileRows)

patternRedacted(col, raw) ==
    /\ ~isSensitiveColumn(col.name)
    /\ \E k \in DOMAIN col.sampleValues :
          /\ matchesSensitive(String(raw[k]))
          /\ col.sampleValues[k] = REDACTED
    /\ \E k \in DOMAIN col.sampleValues : col.sampleValues[k] # REDACTED

C8_RedactedByNameAndByPattern ==
    /\ hasReport
    /\ \E c \in DOMAIN schemaOf :
          /\ isSensitiveColumn(schemaOf[c].name)
          /\ schemaOf[c].sampleValues # <<>>
    /\ \E c \in DOMAIN schemaOf :
          patternRedacted(schemaOf[c], rawCells(fileRows, schemaOf[c].name))

\* C9: every column schema has at most 3 samples, the k-th of them comes from
\* the k-th non-null value of the column, and each is the redaction marker or
\* a text of at most 50 characters
sampleOf(sample, text) ==
    \/ sample = REDACTED
    \/ /\ Len(sample) <= 50
       /\ \/ sample = text
          \/ /\ Len(text) > 50
             /\ sample = firstN(text, 47) \o <<".", ".", ".">>

firstSamples(col, raw) ==
    /\ Len(col.sampleValues) <= 3
    /\ Len(col.sampleValues) = (IF Len(raw) < 3 THEN Len(raw) ELSE 3)
    /\ \A k \in DOMAIN col.sampleValues :
          sampleOf(col.sampleValues[k], String(raw[k]))

allFirstSamples(schema, rows) ==
    \A c \in DOMAIN schema :
        firstSamples(schema[c], rawCells(rows, schema[c].name))

C9_ThreeShortSamples == hasReport => allFirstSamples(schemaOf, fileRows)

truncatedSample(col, raw) ==
    /\ Len(raw) > 3
    /\ \E k \in DOMAIN col.sampleValues :
          /\ Len(String(raw[k])) > 50
          /\ Len(col.sampleValues[k]) = 50
          /\ col.sampleValues[k] # REDACTED

C9_MoreValuesThanSamples ==
    /\ hasReport
    /\ \E c \in DOMAIN schemaOf :
          truncatedSample(schemaOf[c], rawCells(fileRows, schemaOf[c].name))

\* C10: for a column with a sensitive name no field of its schema, sample or
\* numeric statistic, equals a raw cell value of the column
rawNumbers(raw) == {raw[k].n : k \in {j \in DOMAIN raw : raw[j].t = "number"}}

statisticsOf(st) ==
    IF st.defined THEN {st.min, st.max, st.mean, st.median} ELSE {}

nothingRaw(col, raw) ==
    /\ \A k \in DOMAIN col.sampleValues :
          \A j \in DOMAIN raw : col.sampleValues[k] # String(raw[j])
    /\ statisticsOf(col.statistics) \cap rawNumbers(raw) = {}

nothingRawOfSensitive(schema, rows) ==
    \A c \in DOMAIN schema :
        isSensitiveColumn(schema[c].name) =>
            nothingRaw(schema[c], rawCells(rows, schema[c].name))

C10_NoRawValueOfSensitiveColumn ==
    hasReport => nothingRawOfSensitive(schemaOf, fileRows)

\* what two analyses of the same bytes are to agree on: the scores of the
\* dimensions, the composite score and grade, the set of recommendations
outcomeOf(r) ==
    [scores |-> [i \in DOMAIN r.dimensions |-> r.dimensions[i].score],
     composite |-> r.compositeDQS.score,
     grade |-> r.compositeDQS.grade,
     recommendations |-> Range(r.recommendations)]

\* the stored report when it is of the bytes that the present report is of
storedOfSameBytes ==
    /\ pc = "resolved"
    /\ store # <<>>
    /\ store[1].json
    /\ store[1].value.datasetMetadata.dataHash
           = report[1].datasetMetadata.dataHash

\* C11: an analysis of the bytes of an earlier analysis, whenever it runs,
\* gives the dimension scores, the composite score and grade and the set of
\* recommendations of the earlier one
C11_SameBytesSameOutcome ==
    storedOfSameBytes => outcomeOf(store[1].value) = outcomeOf(report[1])

C11_TimelinessMoved ==
    /\ storedOfSameBytes
    /\ store[1].value.dimensions[5].score # report[1].dimensions[5].score

\* the rows in another order, and the orders of n rows
permuted(rows, p) == [i \in DOMAIN rows |-> rows[p[i]]]

Orders(n) ==
    {p \in [1..n -> 1..n] : \A i, j \in 1..n : p[i] = p[j] => i = j}

\* the duplicateRows count and the uniqueness score that the analysis of
\* given rows reports
uniquenessWith(rows, metadata) ==
    [duplicateRows |-> metadata.statisticalSummary.duplicateRows,
     score |-> scorer("uniqueness", rows, metadata, today,
                      [completeness |-> FALSE, composite |-> FALSE]).score]

uniquenessOf(headers, rows) ==
    uniquenessWith(rows, extractMetadata(headers, rows, today))

sameInEveryOrder(parsed, reported) ==
    \A p \in Orders(Len(parsed.rows)) :
        uniquenessOf(parsed.headers, permuted(parsed.rows, p)) = reported

\* C12: in whatever order the data rows of the file are put, the analysis
\* reports the duplicateRows count and the uniqueness score of the report
C12_RowOrderIrrelevant ==
    hasReport =>
        sameInEveryOrder(
            parseCSVContent(file[1]),
            [duplicateRows |->
                 report[1].datasetMetadata.statisticalSummary.duplicateRows,
             score |-> dimensionsOf[3].score])

C12_RepeatedRowApart ==
    /\ hasReport
    /\ Len(fileRows) >= 3
    /\ fileRows[1] = fileRows[3]
    /\ fileRows[1] # fileRows[2]
    /\ report[1].datasetMetadata.statisticalSummary.duplicateRows = 1

\* the scenario of five data rows under the header id,amount,date of which
\* the third repeats the second and the others differ, in their ids too
fiveRowScenario ==
    /\ hasReport
    /\ fileLines[1] = <<"i", "d", ",", "a", "m", "o", "u", "n", "t", ",", "d", "a", "t", "e">>
    /\ Len(fileRows) = 5
    /\ fileRows[3] = fileRows[2]
    /\ Cardinality(Range(fileRows)) = 4
    /\ Cardinality(Range(columnValues(fileRows, <<"i", "d">>))) = 4

hasDateColumn ==
    \E c \in DOMAIN schemaOf :
        \/ schemaOf[c].inferredType = "date"
        \/ includes(toLowerCase(schemaOf[c].name), <<"d", "a", "t", "e">>)

sumWithoutTimeliness ==
    sumSeq([i \in DOMAIN dimensionsOf |->
               IF i # 5 /\ dimensionsOf[i].applicable
               THEN dimensionsOf[i].score * dimensionsOf[i].weight ELSE 0])

ConfidenceByHand ==
    (1 :> 70) @@ (2 :> 73) @@ (3 :> 75) @@ (4 :> 76) @@ (5 :> 77) @@ (9 :> 80)
    @@ (10 :> 80) @@ (100 :> 90) @@ (281 :> 94) @@ (282 :> 95) @@ (355 :> 95)

confidenceInRange ==
    probe # <<>> =>
        /\ probe[1].confidence \in 70..95
        /\ probe[1].rows \in DOMAIN ConfidenceByHand =>
              probe[1].confidence = ConfidenceByHand[probe[1].rows]

neverLessForMoreRows ==
    (probe # <<>> /\ probe' # <<>> /\ probe'[1].rows >= probe[1].rows)
        => probe'[1].confidence >= probe[1].confidence

C15_ConfidenceOfRowCount ==
    [] confidenceInRange /\ [][neverLessForMoreRows]_vars

C15_CapReached ==
    /\ probe # <<>>
    /\ probe[1].rows >= 355
    /\ probe[1].confidence = 95

\* C16: a report has exactly one recommendation for each applicable
\* dimension whose score is below its threshold (90 for uniqueness, 80 for
\* completeness, consistency, validity, timeliness and integrity) and none
\* for any other dimension: none at or above the threshold, none for
\* accuracy, none for an inapplicable dimension although its score is 0
recommendationsOf == report[1].recommendations

thresholdOf(id) ==
    CASE id = "uniqueness" -> 90
      [] id \in {"completeness", "consistency", "validity", "timeliness",
                 "integrity"} -> 80
      [] OTHER -> 0

recommendedFor(id) ==
    Cardinality({k \in DOMAIN recommendationsOf :
                    recommendationsOf[k].dimension = id})

belowThreshold ==
    {i \in DOMAIN dimensionsOf :
        /\ dimensionsOf[i].applicable
        /\ dimensionsOf[i].score < thresholdOf(dimensionsOf[i].id)}

C16_OneRecommendationPerWeakDimension ==
    hasReport =>
        /\ \A i \in DOMAIN dimensionsOf :
              recommendedFor(dimensionsOf[i].id)
                  = IF i \in belowThreshold THEN 1 ELSE 0
        /\ Len(recommendationsOf) = Cardinality(belowThreshold)

C16_WeakStrongAndInapplicable ==
    /\ hasReport
    /\ belowThreshold # {}
    /\ \E i \in DOMAIN dimensionsOf :
          ~dimensionsOf[i].applicable /\ dimensionsOf[i].score = 0
    /\ \E i \in applicableOnes \ belowThreshold :
          dimensionsOf[i].id # "accuracy"
    /\ \E i \in applicableOnes :
          dimensionsOf[i].id = "uniqueness" /\ dimensionsOf[i].score \in 80..89
    /\ \E i \in applicableOnes :
          dimensionsOf[i].id = "accuracy" /\ dimensionsOf[i].score < 80

\* C17: the recommendations of a report are ordered by priority, Critical
\* before High before Medium before Low, and two recommendations of equal
\* priority are in the order in which their dimensions are evaluated, the
\* order of the dimensions of the report
rankOf(priority) ==
    CASE priority = "Critical" -> 1 [] priority = "High" -> 2
      [] priority = "Medium" -> 3 [] priority = "Low" -> 4

evaluatedAt(id) == CHOOSE i \in DOMAIN dimensionsOf : dimensionsOf[i].id = id

C17_SortedByPriorityThenDimension ==
    hasReport =>
        \A k, l \in DOMAIN recommendationsOf :
            k < l =>
                \/ rankOf(recommendationsOf[k].priority)
                       < rankOf(recommendationsOf[l].priority)
                \/ /\ recommendationsOf[k].priority = recommendationsOf[l].priority
                   /\ evaluatedAt(recommendationsOf[k].dimension)
                          < evaluatedAt(recommendationsOf[l].dimension)

\* a list that the sort reordered, with a tie between two priorities
C17_TieAndReordering ==
    /\ hasReport
    /\ \E k, l \in DOMAIN recommendationsOf :
          /\ k < l
          /\ recommendationsOf[k].priority = recommendationsOf[l].priority
    /\ \E k, l \in DOMAIN recommendationsOf :
          /\ k < l
          /\ recommendationsOf[k].priority # recommendationsOf[l].priority
          /\ recommendationsOf[k].id > recommendationsOf[l].id

\* C18: the store is one slot.  Nothing is in it at first; after a report
\* is stored the retrieval gives that report, whatever was stored before;
\* after a clear, and after a text that cannot be deserialized is put in
\* the slot, the retrieval gives nothing; every other step, the retrieval
\* included, leaves the slot as it was
storingStep == pc = "resolved" /\ pc' = "idle"

emptyingStep == ClearStored \/ \E text \in ForeignTexts : ForeignWrite(text)

singleSlot ==
    /\ storingStep => getStoredDQIReport(store') = <<report[1]>>
    /\ emptyingStep => getStoredDQIReport(store') = <<>>
    /\ ~storingStep /\ ~emptyingStep => store' = store
    /\ pc = "idle" /\ summary' # summary => summary' = getStoredDQIReport(store)

Failures == {"Failed to read file", "No data found in file", "digest failed"}

ReportFields ==
    {"datasetMetadata", "dimensions", "compositeDQS", "recommendations",
     "overallRiskSummary", "complianceStatus", "auditTrail"}

completeReport(r) ==
    /\ DOMAIN r = ReportFields
    /\ Len(r.dimensions) = 7
    /\ r.datasetMetadata.rowCount > 0
    /\ DOMAIN r.datasetMetadata.dataHash = {"sha256"}

failedAnalysisStoresNothing ==
    /\ pc # "idle" /\ ~storingStep => store' = store
    /\ pc = "rejected" =>
          /\ error # <<>> /\ error[1] \in Failures
          /\ report = <<>>
          /\ pc' \in {"rejected", "idle"}
    /\ storingStep =>
          /\ error = <<>>
          /\ report # <<>>
          /\ getStoredDQIReport(store') = report

storedIsComplete ==
    (store # <<>> /\ store[1].json) => completeReport(store[1].value)

C19_FailedAnalysisStoresNothing ==
    [] storedIsComplete /\ [][failedAnalysisStoresNothing]_vars

\* the caller is back from a failed analysis and the report stored by an
\* earlier one is still there
C19_ReportSurvivesFailure ==
    /\ pc = "idle"
    /\ error # <<>>
    /\ report = <<>>
    /\ getStoredDQIReport(store) # <<>>

\* C20: an invocation whose read completes or fails settles, once, with a
\* report or with a rejection and never with both.  A failed read rejects
\* with 'Failed to read file' and a failed hash rejects, both without a
\* report; a report carries the hash computed from the first characters of
\* the file and checksumVerified = TRUE
settled == pc \in {"resolved", "rejected"}

oneOutcome ==
    /\ (pc = "resolved") <=> (report # <<>>)
    /\ (pc = "rejected") <=> (error # <<>>)
    /\ hasReport =>
          /\ report[1].datasetMetadata.dataHash
                 = generateDataHash(firstN(file[1], HashPrefixLen))
          /\ report[1].auditTrail.checksumVerified = TRUE

settlesOnce ==
    /\ settled => pc' = pc /\ report' = report /\ error' = error
    /\ pc' = "rejected" /\ pc = "reading" =>
          /\ report' = <<>>
          /\ error' \in {<<"Failed to read file">>, <<"No data found in file">>}
          /\ wellFormed # {} => error' = <<"Failed to read file">>
    /\ pc' = "rejected" /\ pc = "hashing" => report' = <<>> /\ error' # <<>>
    /\ pc' = "resolved" /\ ~settled =>
          pc = "hashing" /\ report' # <<>> /\ error' = <<>>

C20_SettlesOnceReportOrRejection ==
    /\ [] oneOutcome
    /\ [][settlesOnce]_vars
    /\ (pc = "reading") ~> settled

\* the hash of a file with data failed: a rejection and no report
C20_HashFailureRejected ==
    /\ pc = "rejected"
    /\ error = <<"digest failed">>
    /\ report = <<>>
    /\ wellFormed # {}

\* C21: of two invocations in flight together on different files, in every
\* interleaving of their steps, each resolves with the report that its own
\* file gives when analysed alone, and a step of one invocation changes
\* nothing of the other
aloneOf(content, parsed) ==
    buildReport(parsed.rows,
                extractMetadata(parsed.headers, parsed.rows, today),
                generateDataHash(firstN(content, HashPrefixLen)),
                today, rounding)

asIfAlone ==
    \A i \in DOMAIN calls :
        calls[i].pc = "resolved" =>
            calls[i].report
                = <<aloneOf(calls[i].file[1],
                            parseCSVContent(calls[i].file[1]))>>

oneAtATime ==
    \A i \in DOMAIN calls :
        calls'[i] # calls[i] =>
            \A j \in DOMAIN calls \ {i} : calls'[j] = calls[j]

C21_EachAsIfAlone == [] asIfAlone /\ [][oneAtATime]_vars

\* one invocation has resolved with the report of its file while the other
\* waits for its hash with the rows of another file
C21_ResolvedBesideWaiting ==
    /\ calls # <<>>
    /\ calls[1].pc = "resolved"
    /\ calls[2].pc = "hashing"
    /\ calls[1].report[1].datasetMetadata.rowCount
           # Len(calls[2].pending[1].rows)
    /\ calls[1].report[1].datasetMetadata.rowCount = 2

\* C22: in every dimension of every report no column name is twice in
\* impactedColumns, for timeliness too when one date column holds a value
\* that is not a date and a date in the future
noColumnTwice(columns) ==
    \A k, l \in DOMAIN columns : k # l => columns[k] # columns[l]

C22_ImpactedColumnsDistinct ==
    hasReport =>
        \A i \in DOMAIN dimensionsOf : noColumnTwice(dimensionsOf[i].impactedColumns)

\* the column named twice is the date column of timeliness, and in no other
\* dimension is a column named twice
C22_DateColumnTwice ==
    /\ hasReport
    /\ dimensionsOf[5].applicable
    /\ ~noColumnTwice(dimensionsOf[5].impactedColumns)
    /\ \A i \in DOMAIN dimensionsOf \ {5} :
          noColumnTwice(dimensionsOf[i].impactedColumns)

\* C23: the completeness score is round(max(0, 100 - 150 x defectRate)) with
\* defectRate exactly 1 - (non-null cells / cells) over all the columns of
\* the parsed rows.  The score is an integer within one half of
\* (100 x cells - 150 x nullCells) / cells, or 0 when that is not positive
nullCellsOf(rows) ==
    sumSeq([c \in DOMAIN schemaOf |->
               Cardinality({i \in DOMAIN rows :
                               rows[i][schemaOf[c].name].t = "null"})])

roundsTo(score, num, den) ==
    IF num <= 0 THEN score = 0
    ELSE 2 * den * score - 2 * num \in (0 - den)..den

completenessOfCells(score, cells, nullCells) ==
    roundsTo(score, 100 * cells - 150 * nullCells, cells)

completenessOfRows(rows) ==
    completenessOfCells(dimensionsOf[1].score, Len(rows) * Len(schemaOf),
                        nullCellsOf(rows))

C23_CompletenessOfExactRate ==
    hasReport => completenessOfRows(fileRows)

\* three rows of three columns with one null cell: 100 - 150 / 9 is 83.33
\* and the score is 84
C23_OneNullOfNineScores84 ==
    /\ hasReport
    /\ report[1].datasetMetadata.rowCount = 3
    /\ Len(schemaOf) = 3
    /\ report[1].datasetMetadata.statisticalSummary.nullCells = 1
    /\ dimensionsOf[1].id = "completeness"
    /\ dimensionsOf[1].score = 84

\* C24: uniqueness is applicable, with a weight that is not 0, in every
\* report, also when no column is an identifier, has 'id' in its name or
\* has a unique ratio above 0.9
looksLikeIdentifier(col) ==
    \/ col.inferredType = "identifier"
    \/ includes(toLowerCase(col.name), <<"i", "d">>)
    \/ col.uniqueRatio > 90

headerFields == Len(parseCSVLine(fileLines[1]))

integrityOfColumns(columns) ==
    /\ dimensionsOf[7].id = "integrity"
    /\ dimensionsOf[7].applicable <=> columns >= 4
    /\ columns \in 1..3 =>
          dimensionsOf[7].score = 0 /\ dimensionsOf[7].weight = 0
    /\ columns >= 4 => dimensionsOf[7].weight > 0

C25_IntegrityNeedsFourColumns ==
    hasReport => integrityOfColumns(headerFields)

\* a report of a file of three columns, where integrity does not apply
C25_ThreeColumnsNoIntegrity ==
    /\ hasReport
    /\ Len(schemaOf) = 3
    /\ ~dimensionsOf[7].applicable
    /\ dimensionsOf[7].score = 0

\* C26: the type of a column is 'mixed' exactly when more than one kind of
\* value is among its non-null values and the most frequent kind is less
\* than 80% of them; otherwise it is the most frequent kind, and 'string'
\* when no value is non-null
mostFrequent(kinds) ==
    CHOOSE n \in 0..Len(kinds) :
        /\ \A k \in Range(kinds) : tally(kinds, k) <= n
        /\ kinds = <<>> \/ \E k \in Range(kinds) : tally(kinds, k) = n

typeAsStated(type, kinds, most) ==
    IF kinds = <<>> THEN type = "string"
    ELSE IF Cardinality(Range(kinds)) > 1 /\ 100 * most < 80 * Len(kinds)
         THEN type = "mixed"
         ELSE type \in Range(kinds) /\ tally(kinds, type) = most

typeOfColumn(type, kinds) == typeAsStated(type, kinds, mostFrequent(kinds))

typesOfRows(rows) ==
    \A c \in DOMAIN schemaOf :
        typeOfColumn(schemaOf[c].inferredType,
                     kindsOf(rawCells(rows, schemaOf[c].name),
                             isLikelyIdentifier(schemaOf[c].name)))

C26_MixedBelowEightyPercent ==
    hasReport => typesOfRows(fileRows)

\* a column of two kinds at exactly 80% keeps the type of the four, and the
\* column is not mixed
C26_FourOfFiveIsNotMixed ==
    /\ hasReport
    /\ file = <<FourOfFive>>
    /\ schemaOf[1].inferredType = "number"
    /\ Cardinality(Range(kindsOf(rawCells(fileRows, schemaOf[1].name), FALSE))) = 2

\* C27: parseValue tries null, number, boolean, string in this order.  The
\* empty text and, in any case of letters, null and na, and '-', are null.
\* Otherwise a field is a number only if, '$' and ',' removed, it is a sign
\* and digits with at most one point, and it does not begin with 0 and a
\* digit: 007 stays a string, and a field of '$' or ',' alone is not a
\* number.  Otherwise true and false, in any case of letters, are booleans;
\* anything else is the string itself
fieldText == stripQuotes(trim(probe[1].field))

isNullToken(t) ==
    \/ t = <<>>
    \/ toLowerCase(t) \in {<<"n", "u", "l", "l">>, <<"n", "a">>}
    \/ t = <<"-">>

unsignedNumeral(u) ==
    /\ \E i \in DOMAIN u : u[i] \in Digit
    /\ \A i \in DOMAIN u : u[i] \in Digit \cup {"."}
    /\ Cardinality({i \in DOMAIN u : u[i] = "."}) <= 1

fullyNumeric(u) ==
    /\ u # <<>>
    /\ unsignedNumeral(IF u[1] \in {"+", "-"} THEN Tail(u) ELSE u)

leadingZeroLiteral(t) == Len(t) >= 2 /\ t[1] = "0" /\ t[2] \in Digit

classifiedAsStated(t, value) ==
    IF isNullToken(t) THEN value.t = "null"
    ELSE IF fullyNumeric(removeChars(t, {"$", ","})) /\ ~leadingZeroLiteral(t)
    THEN value.t = "number"
    ELSE IF toLowerCase(t) \in {<<"t", "r", "u", "e">>, <<"f", "a", "l", "s", "e">>}
    THEN value = BoolV(toLowerCase(t) = <<"t", "r", "u", "e">>)
    ELSE value = StrV(t)

C27_FieldClassifiedInOrder ==
    (probe # <<>> /\ "field" \in DOMAIN probe[1]) =>
        classifiedAsStated(fieldText, probe[1].value)

\* the field '$' has become the number 0
C27_DollarAloneIsZero ==
    /\ probe # <<>>
    /\ "field" \in DOMAIN probe[1]
    /\ probe[1].field = <<"$">>
    /\ probe[1].value = NumV(0)

\* C28: a comma ends a field only when the number of double quotes before
\* it on the line is even.  A line with k such commas gives k + 1 fields;
\* the other commas are inside the fields; every field is trimmed and has
\* no double quote
quotesBefore(line, i) == Cardinality({j \in 1..(i - 1) : line[j] = "\""})

commasOf(text) == Cardinality({i \in DOMAIN text : text[i] = ","})

unquotedCommas(line) ==
    Cardinality({i \in DOMAIN line :
                    line[i] = "," /\ quotesBefore(line, i) % 2 = 0})

trimmedAndBare(field) ==
    /\ \A i \in DOMAIN field : field[i] # "\""
    /\ field # <<>> => field[1] \notin Space /\ field[Len(field)] \notin Space

splitAsStated(line, fields) ==
    /\ Len(fields) = unquotedCommas(line) + 1
    /\ sumSeq([k \in DOMAIN fields |-> commasOf(fields[k])])
           = commasOf(line) - unquotedCommas(line)
    /\ \A k \in DOMAIN fields : trimmedAndBare(fields[k])

C28_CommaInQuotesStays ==
    (probe # <<>> /\ "line" \in DOMAIN probe[1]) =>
        splitAsStated(probe[1].line, probe[1].fields)

\* a line with a comma inside quotes and a comma outside: two fields, the
\* first with the comma in it
C28_QuotedAndUnquotedComma ==
    /\ probe # <<>>
    /\ "line" \in DOMAIN probe[1]
    /\ probe[1].line = <<"\"", ",", "\"", ",", "a">>
    /\ probe[1].fields = << <<",">>, <<"a">> >>

\* C29: a report of grade A, whose risk summary says that all dimensions
\* are within acceptable thresholds, has no applicable dimension with a
\* score below 60 and has the compliance status COMPLIANT
gradeA == hasReport /\ report[1].compositeDQS.grade = "A"

C29_GradeAIsCompliant ==
    gradeA =>
        /\ report[1].overallRiskSummary.level = "LOW RISK"
        /\ \A i \in applicableOnes : dimensionsOf[i].score >= 60
        /\ report[1].complianceStatus = "COMPLIANT"

\* grade A and the summary of low risk, with timeliness at 0 and the status
\* NON_COMPLIANT
C29_GradeAWithTimelinessZero ==
    /\ gradeA
    /\ compositeScore = 90
    /\ report[1].overallRiskSummary.level = "LOW RISK"
    /\ dimensionsOf[5].applicable
    /\ dimensionsOf[5].score = 0
    /\ \A i \in applicableOnes \ {5} : dimensionsOf[i].score = 100
    /\ report[1].complianceStatus = "NON_COMPLIANT"

\* C30: in every report uniqueRows + duplicateRows = rowCount with
\* uniqueRows at least 1, totalCells = rowCount x columnCount, and the
\* number of duplicate rows that the uniqueness scorer counted, which it
\* reports in its finding when it is not 0, is duplicateRows
summaryOf == report[1].datasetMetadata.statisticalSummary

duplicatesCounted ==
    {dimensionsOf[3].findings[k].n :
        k \in {k \in DOMAIN dimensionsOf[3].findings :
                  dimensionsOf[3].findings[k].kind = "duplicateRows"}}

C30_RowCountsAgree ==
    hasReport =>
        /\ summaryOf.uniqueRows + summaryOf.duplicateRows
               = report[1].datasetMetadata.rowCount
        /\ summaryOf.uniqueRows >= 1
        /\ summaryOf.totalCells
               = report[1].datasetMetadata.rowCount
                     * report[1].datasetMetadata.columnCount
        /\ duplicatesCounted
               = IF summaryOf.duplicateRows = 0 THEN {}
                 ELSE {summaryOf.duplicateRows}

\* four rows of which three are the same
C30_ThreeAlikeOfFour ==
    /\ hasReport
    /\ report[1].datasetMetadata.rowCount = 4
    /\ summaryOf.uniqueRows = 2
    /\ summaryOf.duplicateRows = 2
    /\ duplicatesCounted = {2}
    /\ report[1].datasetMetadata.columnCount = 4
    /\ summaryOf.totalCells = 16

====
